---- MODULE Spec2Model ----
(***************************************************************************)
(* State-machine model of the ArgLib UI root view (src/src/App.tsx), its   *)
(* HTTP client (api/client.ts) and the graph canvas adapters.              *)
(*                                                                         *)
(* app     the React state of the App component, one field per useState    *)
(* tasks   the handler invocations that are waiting on an HTTP request     *)
(* server  the graphs stored by the analysis server (the environment)      *)
(* noop    the handler that returned early in the last step, if any        *)
(* clicks  the number of user actions performed so far                     *)
(* disk    the file written by the last Export, if any                     *)
(***************************************************************************)
EXTENDS Integers, Sequences, FiniteSets, TLC

VARIABLES app, tasks, server, noop, clicks, disk

vars == <<app, tasks, server, noop, clicks, disk>>

----------------------------------------------------------------------------
(* Bounds of the model *)

\* user actions (taps, clicks, keystrokes) in one run
MaxActions == 3
\* newest console lines that are kept
MaxConsole == 1

----------------------------------------------------------------------------
(* JavaScript values *)

\* null
Null == [nil |-> TRUE]

\* undefined
Undefined == [undef |-> TRUE]

\* {...r, [k]: v}
Ext(r, k, v) == [f \in (DOMAIN r) \cup {k} |-> IF f = k THEN v ELSE r[f]]

\* delete r[k]
Del(r, k) == [f \in (DOMAIN r) \ {k} |-> r[f]]

\* r.k, undefined when the key is absent
Get(r, k) == IF k \in DOMAIN r THEN r[k] ELSE Undefined

\* the empty object {}
EmptyObj == [f \in {} |-> Null]

\* relations.filter((_rel, idx) => idx !== index), index counted from 0
\* a filter that drops the element after the one asked for
FilterOutNext(s, index) ==
    IF index >= 0 /\ index + 1 < Len(s)
    THEN [j \in 1..(Len(s) - 1) |-> IF j < index + 2 THEN s[j] ELSE s[j + 1]]
    ELSE s

FilterOutIndex(s, index) ==
    IF index >= 0 /\ index < Len(s)
    THEN [j \in 1..(Len(s) - 1) |-> IF j < index + 1 THEN s[j] ELSE s[j + 1]]
    ELSE s

\* a check that does not trim
IsEmptyString(text) == text = ""

\* text.trim() is empty
IsBlank(text) == text \in {"", " "}

----------------------------------------------------------------------------
(* Identifiers *)

\* `c${n}`
ClaimIdTable == <<"c1", "c2", "c3", "c4", "c5", "c6", "c7", "c8", "c9">>

ClaimId(n) == ClaimIdTable[n]

\* `e${index}`
EdgeIdTable == <<"e0", "e1", "e2", "e3", "e4", "e5", "e6", "e7", "e8">>

EdgeId(index) == EdgeIdTable[index + 1]

\* Number(id.replace("e", "")), -1 standing for NaN
EdgeIndex(id) ==
    IF \E i \in 1..Len(EdgeIdTable) : EdgeIdTable[i] = id
    THEN (CHOOSE i \in 1..Len(EdgeIdTable) : EdgeIdTable[i] = id) - 1
    ELSE -1

----------------------------------------------------------------------------
(* Input sets *)

\* textOverride left out of the call
NoOverride == "<undefined>"

\* what the user can type into a text field
Texts == {"", " ", "A"}

\* HTTP status of a failed request; 0 stands for a transport error (fetch rejects)
FailStatuses == {500, 0}

\* the values Date.now() takes in a run
Times == {1}

\* `doc_${Date.now()}`
DocId(now) == IF now = 1 THEN "doc_1" ELSE "doc_2"

\* `card_${Date.now()}`
CardId(now) == IF now = 1 THEN "card_1" ELSE "card_2"

\* the scores an LLM answers with, in thousandths
LlmScores == {200}

\* the results POST /credibility answers with: without final_scores, with none,
\* and with a score for a unit of the graph and for an id that is no unit
CredibilityResults ==
    {[iterations |-> 1],
     [iterations |-> 1, final_scores |-> [u \in {} |-> 0]],
     [iterations |-> 1, final_scores |-> [u \in {"c1", "zz"} |-> 600]]}

----------------------------------------------------------------------------
(* Graph payloads *)

\* { units: {}, relations: [], metadata: {} }; other top-level keys of a payload
\* are carried along unchanged by every edit and are left out
EmptyGraph == [units |-> EmptyObj, relations |-> <<>>]

UnitIds(g) == DOMAIN g.units

\* unit.metadata ?? {}
MetadataOf(unit) == IF "metadata" \in DOMAIN unit THEN unit.metadata ELSE EmptyObj

----------------------------------------------------------------------------
(* JSON documents: the values JSON.parse returns, tagged with their typeof.  *)
(* The contents of a units object and of a relations array are kept as in a *)
(* graph payload.                                                            *)

JNull == [t |-> "null"]

JUndefined == [t |-> "undefined"]

JNumber(n) == [t |-> "number", n |-> n]

JString(str) == [t |-> "string", s |-> str]

JArray(items) == [t |-> "array", items |-> items]

JObject(fields) == [t |-> "object", fields |-> fields]

\* !!v
Truthy(v) ==
    CASE v.t = "null" -> FALSE
      [] v.t = "undefined" -> FALSE
      [] v.t = "number" -> v.n # 0
      [] v.t = "string" -> v.s # ""
      [] OTHER -> TRUE

\* typeof v === "object"
TypeofObject(v) == v.t \in {"object", "array", "null"}

\* v.k and v?.k
Field(v, k) ==
    IF v.t = "object" /\ k \in DOMAIN v.fields THEN v.fields[k] ELSE JUndefined

\* a graph payload as a JSON document
GraphToJson(g) ==
    JObject([units |-> JObject(g.units), relations |-> JArray(g.relations)])

\* `payload as GraphData`
JsonToGraph(v) ==
    [units |-> Field(v, "units").fields, relations |-> Field(v, "relations").items]

\* a state value that is null or an object
ValueToJson(x) == IF x = Null THEN JNull ELSE JObject(x)

\* a cards or docs mapping, of which the model keeps the ids
IdsToJson(ids) == JObject([id \in ids |-> JObject(EmptyObj)])

\* JSON.stringify leaves out the properties whose value is undefined
DropUndefined(v) ==
    IF v.t = "object"
    THEN JObject([k \in {f \in DOMAIN v.fields : v.fields[f].t # "undefined"} |->
                     v.fields[k]])
    ELSE v

\* JSON.stringify(v, null, 2), the text of a file
JsonStringify(v) == [valid |-> TRUE, json |-> DropUndefined(v)]

----------------------------------------------------------------------------
(* The files the user can pick for Import Graph *)

\* a graph with scored, typed and bare units and four relations
SampleGraph ==
    [units |->
        [k \in {"c1", "c2", "c3"} |->
            IF k = "c1"
            THEN [id |-> "c1", text |-> "A", type |-> "fact",
                  evidence_ids |-> <<"card1">>,
                  metadata |-> [claim_credibility |-> 800,
                                claim_credibility_method |-> "manual"]]
            ELSE IF k = "c2"
            THEN [id |-> "c2", text |-> "B", type |-> "value"]
            ELSE [id |-> "c3", text |-> "C"]],
     relations |->
        <<[src |-> "c1", dst |-> "c2", kind |-> "support"],
          [src |-> "c2", dst |-> "c3", kind |-> "attack"],
          [src |-> "c1", dst |-> "c2", kind |-> "attack"],
          [src |-> "c3", dst |-> "c1", kind |-> "support"]>>]

\* the graph the mining endpoints answer with
MinedGraph ==
    [units |-> [k \in {"c1"} |-> [id |-> "c1", text |-> "M", type |-> "fact"]],
     relations |-> <<>>]

SampleBundle ==
    JObject([kind |-> JString("arglib-graph-bundle"),
             payload |-> GraphToJson(SampleGraph),
             diagnostics |-> JObject([node_count |-> 3, relation_count |-> 4]),
             credibility |-> JNull,
             cards |-> IdsToJson({"card1"}),
             docs |-> IdsToJson({"doc1"})])

\* a bundle as Export Graph writes it
BundleFiles ==
    {[name |-> "bundle.json", valid |-> TRUE, json |-> SampleBundle]}

\* files with a graph in one of the recognised positions
GraphFiles ==
    BundleFiles \cup
    {[name |-> "bare.json", valid |-> TRUE, json |-> GraphToJson(SampleGraph)],
     [name |-> "payload.json", valid |-> TRUE,
      json |-> JObject([payload |-> GraphToJson(EmptyGraph)])],
     [name |-> "graph.json", valid |-> TRUE,
      json |-> JObject([graph |-> GraphToJson(SampleGraph)])]}

\* files that are not JSON, or hold no units and relations in any such position
BrokenFiles ==
    {[name |-> "broken.json", valid |-> FALSE, json |-> JUndefined],
     [name |-> "null.json", valid |-> TRUE, json |-> JNull],
     [name |-> "number.json", valid |-> TRUE, json |-> JNumber(5)],
     [name |-> "list.json", valid |-> TRUE, json |-> JArray(<<>>)],
     [name |-> "units-only.json", valid |-> TRUE,
      json |-> JObject([units |-> JObject(SampleGraph.units)])],
     [name |-> "relations-null.json", valid |-> TRUE,
      json |-> JObject([units |-> JObject(SampleGraph.units), relations |-> JNull])],
     [name |-> "bundle-no-graph.json", valid |-> TRUE,
      json |-> JObject([kind |-> JString("arglib-graph-bundle"),
                        payload |-> JObject([units |-> JObject(EmptyObj)])])],
     [name |-> "nested.json", valid |-> TRUE,
      json |-> JObject([data |-> GraphToJson(SampleGraph)])]}

\* the files offered to the file picker: the fixed ones and the last export
Files == GraphFiles \cup BrokenFiles \cup (IF disk = Null THEN {} ELSE {disk.file})

----------------------------------------------------------------------------
(* HTTP client *)

StatusText(status) == IF status = 500 THEN "500" ELSE "0"

\* the Error a failed request() rejects with: `Request failed: ${response.status}`
\* for a response that is not ok, fetch's own TypeError for a transport error
RequestError(status) ==
    IF status = 0 THEN "Failed to fetch"
    ELSE "Request failed: " \o StatusText(status)

\* one fetch per request(); tries counts the fetch calls made for it
Request(op, id, body) == [op |-> op, id |-> id, body |-> body, tries |-> 1]

NoRequest == [op |-> "-", id |-> "", body |-> Null, tries |-> 0]

fetchHealth == Request("fetchHealth", "", Null)

createGraph(body) == Request("createGraph", "", body)

getGraph(graphId) == Request("getGraph", graphId, Null)

\* a client that sends the units alone, as a patch
updateGraphPatch(graphId, body) == Request("updateGraph", graphId, [units |-> body.units])

updateGraph(graphId, body) == Request("updateGraph", graphId, body)

runDiagnostics(graphId) == Request("runDiagnostics", graphId, Null)

runReasoning(graphId, body) == Request("runReasoning", graphId, body)

runCredibility(graphId) == Request("runCredibility", graphId, Null)

scoreClaimConfidence(graphId, unitId, body) ==
    Request("scoreClaimConfidence", graphId, [unitId |-> unitId, body |-> body])

addEvidenceCard(graphId, body) == Request("addEvidenceCard", graphId, body)

attachEvidenceCard(graphId, unitId, cardId) ==
    Request("attachEvidenceCard", graphId, [unitId |-> unitId, cardId |-> cardId])

addSupportingDocument(graphId, body) == Request("addSupportingDocument", graphId, body)

\* POST /mining/parse and /mining/parse-url
parseMining(body) == Request("parseMining", "", body)

parseMiningUrl(body) == Request("parseMiningUrl", "", body)

classifyClaimType(graphId, unitId, body) ==
    Request("classifyClaimType", graphId, [unitId |-> unitId, body |-> body])

validateEdge(graphId, edgeId, body) ==
    Request("validateEdge", graphId, [edgeId |-> edgeId, body |-> body])

generateEdgeAssumptions(graphId, edgeId, body) ==
    Request("generateEdgeAssumptions", graphId, [edgeId |-> edgeId, body |-> body])

listEvidenceCards(graphId) == Request("listEvidenceCards", graphId, Null)

listSupportingDocuments(graphId) == Request("listSupportingDocuments", graphId, Null)

----------------------------------------------------------------------------
(* Tasks: a handler or effect suspended at an await *)

EffectSlots == {"fxHealth", "fxCreate", "fxGraph", "fxCards", "fxDocs"}

HandlerSlotTable == <<"t1", "t2", "t3", "t4">>

\* the handler slots of a run are fixed by its initial state: one slot, the
\* handlers of a run follow one another
SerialSlots == {"t1"}

\* two slots: a second handler can start while the first waits for an answer
OverlapSlots == {"t1", "t2"}

HandlerSlots == (DOMAIN tasks) \ EffectSlots

Slots == DOMAIN tasks

Idle ==
    [kind |-> "idle", pc |-> "-", net |-> "-", gid |-> "", sel |-> Null,
     req |-> NoRequest, resp |-> Null, pre |-> Null, arg |-> Null]

\* the part of the local state a failed call is expected to leave alone
LocalSlice(a) ==
    [graph |-> a.graph, selection |-> a.selection, cards |-> a.cards,
     docs |-> a.docs, datasetItems |-> a.datasetItems,
     diagnostics |-> a.diagnostics, credibility |-> a.credibility,
     reasoning |-> a.reasoning, reasonerResults |-> a.reasonerResults]

\* a handler of the current render suspends on req; it keeps the graphId and
\* selection of the render it was created in
Suspend(kind, pc, req, arg) ==
    [kind |-> kind, pc |-> pc, net |-> "sent", gid |-> app.graphId,
     sel |-> app.selection, req |-> req, resp |-> Null,
     pre |-> LocalSlice(app), arg |-> arg]

\* a suspended handler issues its next request
Await(task, pc, req) ==
    [task EXCEPT !.pc = pc, !.net = "sent", !.req = req, !.resp = Null]

HasFreeSlot == \E t \in HandlerSlots : tasks[t] = Idle

FreeSlot ==
    HandlerSlotTable[CHOOSE i \in 1..Len(HandlerSlotTable) :
        /\ HandlerSlotTable[i] \in HandlerSlots
        /\ tasks[HandlerSlotTable[i]] = Idle
        /\ \A j \in 1..(i - 1) :
              HandlerSlotTable[j] \in HandlerSlots => tasks[HandlerSlotTable[j]] # Idle]

Settled(t) == tasks[t].net \in {"ok", "err"}

----------------------------------------------------------------------------
(* Graph-element projector *)

\* the band of a credibility score, in thousandths
getScoreClassification(credibilityScore) ==
    IF credibilityScore >= -1000 /\ credibilityScore <= -600 THEN "Very Low Confidence"
    ELSE IF credibilityScore >= -590 /\ credibilityScore <= -200 THEN "Low Confidence"
    ELSE IF credibilityScore >= -190 /\ credibilityScore <= 190 THEN "Neutral / Unknown"
    ELSE IF credibilityScore >= 200 /\ credibilityScore <= 590 THEN "High Confidence"
    ELSE IF credibilityScore >= 600 /\ credibilityScore <= 1000 THEN "Very High Confidence"
    ELSE "Unknown"

\* Object.values(units), in one fixed order
RECURSIVE ObjectValues(_)
ObjectValues(obj) ==
    IF DOMAIN obj = {} THEN <<>>
    ELSE LET k == CHOOSE x \in DOMAIN obj : TRUE
         IN <<obj[k]>> \o ObjectValues(Del(obj, k))

\* the node descriptor of a unit
NodeElement(unit) ==
    LET metadata == MetadataOf(unit)
        hasScore == \E k \in {"claim_credibility_propagated", "claim_credibility",
                              "llm_confidence"} : k \in DOMAIN metadata
        score == IF "claim_credibility_propagated" \in DOMAIN metadata
                 THEN metadata.claim_credibility_propagated
                 ELSE IF "claim_credibility" \in DOMAIN metadata
                 THEN metadata.claim_credibility
                 ELSE metadata.llm_confidence
        text == IF "text" \in DOMAIN unit THEN unit.text ELSE ""
        lines == IF Len(text) <= 26 THEN 1 ELSE (Len(text) + 25) \div 26
    IN [data |->
          [id |-> unit.id,
           label |-> text,
           scoreBadge |-> IF hasScore THEN getScoreClassification(score) ELSE "",
           propagatedScore |->
               IF "claim_credibility_propagated" \in DOMAIN metadata
               THEN metadata.claim_credibility_propagated ELSE -1,
           width |-> IF 160 > 26 * 7 THEN 160 ELSE IF 26 * 7 > 300 THEN 300 ELSE 26 * 7,
           height |-> IF 30 + lines * 16 > 140 THEN 140 ELSE 30 + lines * 16]]

\* the edge descriptor of relations[index], index counted from 0
EdgeElement(rel, index) ==
    [data |->
       [id |-> EdgeId(index),
        source |-> rel.src,
        target |-> rel.dst,
        label |-> rel.kind,
        kind |-> rel.kind]]

\* a projector that leaves out the relations between the same two units
ElementsDistinctPairs(graph) ==
    IF graph = Null THEN <<>>
    ELSE LET nodes == ObjectValues(graph.units)
             first == {i \in 1..Len(graph.relations) :
                          \A j \in 1..(i - 1) :
                             \/ graph.relations[j].src # graph.relations[i].src
                             \/ graph.relations[j].dst # graph.relations[i].dst}
         IN [i \in 1..Len(nodes) |-> NodeElement(nodes[i])]
            \o SelectSeq([i \in 1..Len(graph.relations) |->
                             EdgeElement(graph.relations[i], i - 1)],
                         LAMBDA e : \E i \in first : e.data.id = EdgeId(i - 1))

\* elements = useMemo(..., [graph])
Elements(graph) ==
    IF graph = Null THEN <<>>
    ELSE LET nodes == ObjectValues(graph.units)
         IN [i \in 1..Len(nodes) |-> NodeElement(nodes[i])]
            \o [i \in 1..Len(graph.relations) |->
                  EdgeElement(graph.relations[i], i - 1)]

\* "source" in data && "target" in data
IsEdgeElement(element) ==
    "source" \in DOMAIN element.data /\ "target" \in DOMAIN element.data

\* what a tap on the canvas can hand to onSelect: the id of a node element
\* (unit.id) or of an edge element (e<index>), or null for the background
Selections(graph) ==
    IF graph = Null THEN {Null}
    ELSE {Null}
         \cup {[type |-> "node", id |-> graph.units[k].id] : k \in DOMAIN graph.units}
         \cup {[type |-> "edge", id |-> EdgeId(i - 1)] : i \in 1..Len(graph.relations)}

\* the selections a tap on a node gives
NodeSelections(graph) == {sel \in Selections(graph) \ {Null} : sel.type = "node"}

RECURSIVE SyncElementsCountingNew(_, _, _, _)
\* an element effect that numbers only the nodes it has no position for
SyncElementsCountingNew(elements, positionMap, index, acc) ==
    IF elements = <<>> THEN acc
    ELSE LET data == Head(elements).data
         IN IF IsEdgeElement(Head(elements))
            THEN SyncElementsCountingNew(Tail(elements), positionMap, index,
                   [acc EXCEPT !.edges = Append(@,
                       [id |-> data.id, source |-> data.source,
                        target |-> data.target, label |-> data.label])])
            ELSE IF data.id \in DOMAIN positionMap
            THEN SyncElementsCountingNew(Tail(elements), positionMap, index,
                   [acc EXCEPT !.nodes = Append(@,
                       [id |-> data.id, position |-> positionMap[data.id]])])
            ELSE SyncElementsCountingNew(Tail(elements), positionMap, index + 1,
                   [acc EXCEPT !.nodes = Append(@,
                       [id |-> data.id,
                        position |-> [x |-> (index % 4) * 240,
                                      y |-> (index \div 4) * 160]])])

\* the React Flow adapter's effect on [elements, highlightSet]: the element list
\* split into nodes and edges; a node keeps the position it had under the same id
\* and otherwise takes the next grid position
RECURSIVE SyncElements(_, _, _, _)
SyncElements(elements, positionMap, index, acc) ==
    IF elements = <<>> THEN acc
    ELSE LET data == Head(elements).data
         IN IF IsEdgeElement(Head(elements))
            THEN SyncElements(Tail(elements), positionMap, index,
                   [acc EXCEPT !.edges = Append(@,
                       [id |-> data.id, source |-> data.source,
                        target |-> data.target, label |-> data.label])])
            ELSE SyncElements(Tail(elements), positionMap, index + 1,
                   [acc EXCEPT !.nodes = Append(@,
                       [id |-> data.id,
                        position |->
                            IF data.id \in DOMAIN positionMap THEN positionMap[data.id]
                            ELSE [x |-> (index % 4) * 240, y |-> (index \div 4) * 160]])])

----------------------------------------------------------------------------
(* Component state *)

\* the fields of app are the useState values of App; canvas is the state of its
\* GraphCanvas child with the props the canvas called in its last event: the
\* Cytoscape component (kind "cytoscape") holds edgeMode and edgeSource, the
\* React Flow component (kind "reactflow") holds nodes and edges; elements and
\* highlight are the values of the props its element effect last ran with

\* logConsole: newest line first; the newest MaxConsole lines are kept
logConsole(a, message) ==
    [a EXCEPT !.consoleEntries = SubSeq(<<message>> \o @, 1,
                 IF Len(@) + 1 > MaxConsole THEN MaxConsole ELSE Len(@) + 1)]

InitApp ==
    [status |-> "loading", graphId |-> "", graph |-> Null, graphRef |-> Null,
     diagnostics |-> Null, credibility |-> Null,
     llmResult |-> Null, llmError |-> "",
     claimTypeResult |-> Null, claimTypeError |-> "",
     isScoringClaim |-> FALSE, isClassifyingClaim |-> FALSE,
     isValidatingEdge |-> FALSE, isGeneratingAssumptions |-> FALSE,
     isRunningCredibility |-> FALSE, isRunningDiagnostics |-> FALSE,
     reasoning |-> Null, reasoningError |-> "",
     reasonerResults |-> Null, reasonerError |-> "",
     claimText |-> "", claimType |-> "fact", relationKind |-> "support",
     manualClaimScore |-> "",
     edgeAssumptions |-> Null, edgeAssumptionsError |-> "",
     edgeValidation |-> Null, edgeValidationError |-> "",
     docName |-> "", docUrl |-> "", docType |-> "pdf",
     cardTitle |-> "", cardDocId |-> "", cardExcerpt |-> "",
     attachCardId |-> "", cards |-> {}, docs |-> {},
     selection |-> Null,
     miningText |-> "", miningUrl |-> "", miningError |-> "", isMining |-> FALSE,
     datasetItems |-> <<>>, selectedDatasetId |-> "", datasetCount |-> 0,
     datasetSource |-> "", datasetError |-> "",
     diagnosticFocus |-> <<>>,
     consoleEntries |-> <<>>,
     canvas |-> [kind |-> "cytoscape",
                 edgeMode |-> FALSE, edgeSource |-> Null, calls |-> <<>>,
                 nodes |-> <<>>, edges |-> <<>>,
                 elements |-> <<>>, highlight |-> {}]]

\* the result of Number(text) for a text that is no number
NaN == -999999

\* Number(text) in thousandths, for the texts a number input can hold
NumberOf(text) ==
    CASE text = "" -> 0
      [] text = "0.00" -> 0
      [] text = "0.20" -> 200
      [] text = "0.60" -> 600
      [] text = "0.80" -> 800
      [] text = "2" -> 2000
      [] OTHER -> NaN

\* Number(score).toFixed(2) of a score in thousandths
ToFixed2(score) ==
    IF score = 200 THEN "0.20" ELSE IF score = 600 THEN "0.60"
    ELSE IF score = 800 THEN "0.80" ELSE "0.00"

\* effect on [selection, graph]: the claim form follows the selected unit
NodeSelectionEffect(a) ==
    IF a.selection = Null \/ a.graph = Null THEN a
    ELSE IF a.selection.type # "node" THEN a
    ELSE IF a.selection.id \notin DOMAIN a.graph.units THEN a
    ELSE LET unit == a.graph.units[a.selection.id]
             metadata == MetadataOf(unit)
             hasScore == "claim_credibility" \in DOMAIN metadata
                         \/ "llm_confidence" \in DOMAIN metadata
             claimScore == IF "claim_credibility" \in DOMAIN metadata
                           THEN metadata.claim_credibility
                           ELSE metadata.llm_confidence
             unitType == IF "type" \in DOMAIN unit THEN unit.type ELSE ""
         IN [a EXCEPT
               !.claimText = IF "text" \in DOMAIN unit THEN unit.text ELSE "",
               !.claimType = IF "type" \in DOMAIN unit THEN unit.type ELSE "fact",
               !.llmResult =
                   IF hasScore
                   THEN [score |-> claimScore,
                         score_source |->
                             IF "claim_credibility_method" \in DOMAIN metadata
                             THEN metadata.claim_credibility_method ELSE ""]
                   ELSE Null,
               !.claimTypeResult =
                   IF unitType # "" THEN [claim_type |-> unitType] ELSE Null,
               !.manualClaimScore =
                   IF "claim_credibility" \in DOMAIN metadata
                   THEN ToFixed2(metadata.claim_credibility) ELSE ""]

\* the edgeValidation the edge effect derives from rel.metadata.llm_validation,
\* which is kept as the JSON document it is: an object with a string evaluation
\* and a number score, or else null
StoredValidation(rel) ==
    LET stored == IF "metadata" \in DOMAIN rel /\ "llm_validation" \in DOMAIN rel.metadata
                  THEN rel.metadata.llm_validation ELSE JUndefined
    IN IF Truthy(stored) /\ TypeofObject(stored)
          /\ Field(stored, "evaluation").t = "string"
          /\ Field(stored, "score").t = "number"
       THEN [evaluation |-> Field(stored, "evaluation").s,
             score |-> Field(stored, "score").n,
             provider |-> IF Field(stored, "provider").t = "string"
                          THEN Field(stored, "provider").s ELSE "openai"]
       ELSE Null

\* an edge effect that leaves the assumptions of the edge selected before
EdgeSelectionKeepsAssumptions(a) ==
    IF a.selection = Null \/ a.graph = Null THEN a
    ELSE IF a.selection.type # "edge" THEN a
    ELSE LET index == EdgeIndex(a.selection.id)
             hasRel == index >= 0 /\ index < Len(a.graph.relations)
         IN [a EXCEPT
               !.edgeValidation =
                   IF hasRel THEN StoredValidation(a.graph.relations[index + 1])
                   ELSE Null,
               !.edgeValidationError = "",
               !.edgeAssumptionsError = ""]

\* effect on [selection, graph]: the edge panel follows the selected relation
EdgeSelectionEffect(a) ==
    IF a.selection = Null \/ a.graph = Null THEN a
    ELSE IF a.selection.type # "edge" THEN a
    ELSE LET index == EdgeIndex(a.selection.id)
             hasRel == index >= 0 /\ index < Len(a.graph.relations)
             rel == a.graph.relations[index + 1]
         IN [a EXCEPT
               !.relationKind = IF hasRel THEN rel.kind ELSE @,
               !.edgeValidation = IF hasRel THEN StoredValidation(rel) ELSE Null,
               !.edgeValidationError = "",
               !.edgeAssumptions = Null,
               !.edgeAssumptionsError = ""]

\* the effects that run after a render in which setGraph or setSelection was
\* called: graphRef.current = graph, then the two selection effects
\* highlightNodes with the highlight checkboxes off and no reasoning result
HighlightNodes(a) == {a.diagnosticFocus[i] : i \in DOMAIN a.diagnosticFocus}

\* the element effect of the React Flow canvas, run when elements or
\* highlightSet changed
FlowSyncEffect(a) ==
    IF a.canvas.kind # "reactflow" THEN a
    ELSE IF Elements(a.graph) = a.canvas.elements
            /\ HighlightNodes(a) = a.canvas.highlight THEN a
    ELSE LET nodes == a.canvas.nodes
             last(id) == CHOOSE i \in DOMAIN nodes :
                            /\ nodes[i].id = id
                            /\ \A j \in DOMAIN nodes : nodes[j].id = id => j <= i
             positionMap == [id \in {nodes[i].id : i \in DOMAIN nodes} |->
                                nodes[last(id)].position]
             next == SyncElements(Elements(a.graph), positionMap, 0,
                                  [nodes |-> <<>>, edges |-> <<>>])
         IN [a EXCEPT !.canvas.nodes =
                          [i \in DOMAIN next.nodes |->
                              [id |-> next.nodes[i].id,
                               position |-> next.nodes[i].position,
                               highlighted |-> next.nodes[i].id \in HighlightNodes(a)]],
                      !.canvas.edges = next.edges,
                      !.canvas.elements = Elements(a.graph),
                      !.canvas.highlight = HighlightNodes(a)]

Render(a) ==
    LET synced == NodeSelectionEffect([a EXCEPT !.graphRef = a.graph])
    IN FlowSyncEffect(EdgeSelectionEffect(synced))

\* a step that is not an early return and writes no file: early returns are
\* recorded in noop unless it is "off", and any other step clears it
Acted ==
    /\ noop' = (IF noop = "off" THEN "off" ELSE "")
    /\ UNCHANGED disk

----------------------------------------------------------------------------
(* Initial state: the component has mounted and its two mount effects have *)
(* issued GET /health and POST /graphs                                      *)

InitTasks ==
    [t \in EffectSlots |->
        IF t = "fxHealth"
        THEN [Idle EXCEPT !.kind = "healthEffect", !.pc = "fetchHealth",
                          !.net = "sent", !.req = fetchHealth]
        ELSE IF t = "fxCreate"
        THEN [Idle EXCEPT !.kind = "createGraphEffect", !.pc = "createGraph",
                          !.net = "sent", !.req = createGraph(EmptyGraph)]
        ELSE Idle]

InitServer == [graphs |-> EmptyObj, cards |-> EmptyObj, docs |-> EmptyObj]

Init ==
    /\ app = InitApp
    /\ tasks = InitTasks
    /\ server = InitServer
    /\ noop = "off"
    /\ clicks = 0
    /\ disk = Null

\* the state reached when every mount request has succeeded: the server holds
\* the empty graph g1 and the component has loaded it
ReadyApp ==
    [InitApp EXCEPT !.status = "ok", !.graphId = "g1",
                    !.graph = EmptyGraph, !.graphRef = EmptyGraph]

ReadyServer ==
    [graphs |-> [g \in {"g1"} |-> EmptyGraph],
     cards |-> [g \in {"g1"} |-> {}],
     docs |-> [g \in {"g1"} |-> {}]]

InitReady ==
    /\ app = ReadyApp
    /\ tasks = [t \in EffectSlots \cup SerialSlots |-> Idle]
    /\ server = ReadyServer
    /\ noop = "off"
    /\ clicks = 0
    /\ disk = Null

----------------------------------------------------------------------------
(* The analysis server: answers one request at a time *)

GraphIdTable == <<"g1", "g2", "g3">>

Serving(t, op) == tasks[t].net = "sent" /\ tasks[t].req.op = op

Answer(t, resp) == tasks' = [tasks EXCEPT ![t].net = "ok", ![t].resp = resp]

\* GET /health
ServeHealth(t) ==
    /\ Serving(t, "fetchHealth")
    /\ Answer(t, [status |-> "ok"])
    /\ UNCHANGED <<app, server>>
    /\ Acted
    /\ UNCHANGED clicks

\* POST /graphs: store the payload under a fresh id
ServeCreateGraph(t) ==
    /\ Serving(t, "createGraph")
    /\ Cardinality(DOMAIN server.graphs) < Len(GraphIdTable)
    /\ LET id == GraphIdTable[Cardinality(DOMAIN server.graphs) + 1]
       IN /\ server' = [graphs |-> Ext(server.graphs, id, tasks[t].req.body),
                        cards |-> Ext(server.cards, id, {}),
                        docs |-> Ext(server.docs, id, {})]
          /\ Answer(t, [id |-> id, payload |-> tasks[t].req.body])
    /\ UNCHANGED app
    /\ Acted
    /\ UNCHANGED clicks

\* GET /graphs/{id}
ServeGetGraph(t) ==
    /\ Serving(t, "getGraph")
    /\ tasks[t].req.id \in DOMAIN server.graphs
    /\ Answer(t, [id |-> tasks[t].req.id,
                  payload |-> server.graphs[tasks[t].req.id]])
    /\ UNCHANGED <<app, server>>
    /\ Acted
    /\ UNCHANGED clicks

\* PUT /graphs/{id}: replace the stored payload by the body
ServeUpdateGraph(t) ==
    /\ Serving(t, "updateGraph")
    /\ tasks[t].req.id \in DOMAIN server.graphs
    /\ server' = [server EXCEPT !.graphs[tasks[t].req.id] = tasks[t].req.body]
    /\ Answer(t, Null)
    /\ UNCHANGED app
    /\ Acted
    /\ UNCHANGED clicks

\* GET /graphs/{id}/evidence-cards
ServeListEvidenceCards(t) ==
    /\ Serving(t, "listEvidenceCards")
    /\ tasks[t].req.id \in DOMAIN server.graphs
    /\ Answer(t, [items |-> server.cards[tasks[t].req.id]])
    /\ UNCHANGED <<app, server>>
    /\ Acted
    /\ UNCHANGED clicks

\* GET /graphs/{id}/supporting-documents
ServeListSupportingDocuments(t) ==
    /\ Serving(t, "listSupportingDocuments")
    /\ tasks[t].req.id \in DOMAIN server.graphs
    /\ Answer(t, [items |-> server.docs[tasks[t].req.id]])
    /\ UNCHANGED <<app, server>>
    /\ Acted
    /\ UNCHANGED clicks

\* POST /graphs/{id}/credibility: some propagation result
ServeRunCredibility(t) ==
    /\ Serving(t, "runCredibility")
    /\ tasks[t].req.id \in DOMAIN server.graphs
    /\ \E result \in CredibilityResults : Answer(t, result)
    /\ UNCHANGED <<app, server>>
    /\ Acted
    /\ UNCHANGED clicks

\* POST /graphs/{id}/units/{unitId}/llm-confidence: some score for a unit the
\* server holds, which the server may or may not write into the stored unit
ServeScoreClaimConfidence(t) ==
    /\ Serving(t, "scoreClaimConfidence")
    /\ tasks[t].req.id \in DOMAIN server.graphs
    /\ LET id == tasks[t].req.id
           unitId == tasks[t].req.body.unitId
       IN /\ unitId \in DOMAIN server.graphs[id].units
          /\ \E score \in LlmScores, stored \in BOOLEAN :
                /\ server' =
                      IF stored
                      THEN [server EXCEPT !.graphs[id].units[unitId] =
                               Ext(@, "metadata",
                                   Ext(MetadataOf(@), "llm_confidence", score))]
                      ELSE server
                /\ Answer(t, [score |-> score, score_source |-> "llm"])
    /\ UNCHANGED app
    /\ Acted
    /\ UNCHANGED clicks

\* POST /graphs/{id}/supporting-documents
ServeAddSupportingDocument(t) ==
    /\ Serving(t, "addSupportingDocument")
    /\ tasks[t].req.id \in DOMAIN server.graphs
    /\ server' = [server EXCEPT !.docs[tasks[t].req.id] = @ \cup {tasks[t].req.body.id}]
    /\ Answer(t, Null)
    /\ UNCHANGED app
    /\ Acted
    /\ UNCHANGED clicks

\* POST /graphs/{id}/evidence-cards
ServeAddEvidenceCard(t) ==
    /\ Serving(t, "addEvidenceCard")
    /\ tasks[t].req.id \in DOMAIN server.graphs
    /\ server' = [server EXCEPT !.cards[tasks[t].req.id] = @ \cup {tasks[t].req.body.id}]
    /\ Answer(t, Null)
    /\ UNCHANGED app
    /\ Acted
    /\ UNCHANGED clicks

\* POST /graphs/{id}/units/{unitId}/evidence-cards/{cardId}: the card joins the
\* evidence_ids of a unit the server holds
ServeAttachEvidenceCard(t) ==
    /\ Serving(t, "attachEvidenceCard")
    /\ tasks[t].req.id \in DOMAIN server.graphs
    /\ LET id == tasks[t].req.id
           unitId == tasks[t].req.body.unitId
           cardId == tasks[t].req.body.cardId
       IN /\ unitId \in DOMAIN server.graphs[id].units
          /\ server' = [server EXCEPT !.graphs[id].units[unitId] =
                           Ext(@, "evidence_ids",
                               IF "evidence_ids" \in DOMAIN @
                               THEN Append(@.evidence_ids, cardId) ELSE <<cardId>>)]
    /\ Answer(t, Null)
    /\ UNCHANGED app
    /\ Acted
    /\ UNCHANGED clicks

\* the mining endpoints: the mined graph is stored under a fresh id
ServeParseMining(t) ==
    /\ tasks[t].net = "sent"
    /\ tasks[t].req.op \in {"parseMining", "parseMiningUrl"}
    /\ Cardinality(DOMAIN server.graphs) < Len(GraphIdTable)
    /\ LET id == GraphIdTable[Cardinality(DOMAIN server.graphs) + 1]
       IN /\ server' = [graphs |-> Ext(server.graphs, id, MinedGraph),
                        cards |-> Ext(server.cards, id, {}),
                        docs |-> Ext(server.docs, id, {})]
          /\ Answer(t, [id |-> id, payload |-> MinedGraph])
    /\ UNCHANGED app
    /\ Acted
    /\ UNCHANGED clicks

\* a response that is not ok, or no response at all
ServeError(t) ==
    /\ tasks[t].net = "sent"
    /\ \E status \in FailStatuses :
          tasks' = [tasks EXCEPT ![t].net = "err", ![t].resp = [status |-> status]]
    /\ UNCHANGED <<app, server>>
    /\ Acted
    /\ UNCHANGED clicks

----------------------------------------------------------------------------
(* Mount effects *)

\* the three requests of the effect on [graphId]; the requests of its previous
\* run have to be settled first
GraphIdEffectIdle ==
    tasks["fxGraph"] = Idle /\ tasks["fxCards"] = Idle /\ tasks["fxDocs"] = Idle

GraphIdEffect(ts, graphId) ==
    [ts EXCEPT
       !["fxGraph"] = [Idle EXCEPT !.kind = "graphIdEffect", !.pc = "getGraph",
                          !.net = "sent", !.gid = graphId, !.req = getGraph(graphId)],
       !["fxCards"] = [Idle EXCEPT !.kind = "graphIdEffect", !.pc = "listEvidenceCards",
                          !.net = "sent", !.gid = graphId,
                          !.req = listEvidenceCards(graphId)],
       !["fxDocs"] = [Idle EXCEPT !.kind = "graphIdEffect", !.pc = "listSupportingDocuments",
                          !.net = "sent", !.gid = graphId,
                          !.req = listSupportingDocuments(graphId)]]

\* fetchHealth().then(setStatus).catch(() => setStatus("error"))
HealthSettled ==
    /\ Settled("fxHealth")
    /\ app' = [app EXCEPT !.status = IF tasks["fxHealth"].net = "ok"
                                     THEN tasks["fxHealth"].resp.status ELSE "error"]
    /\ tasks' = [tasks EXCEPT !["fxHealth"] = Idle]
    /\ UNCHANGED server
    /\ Acted
    /\ UNCHANGED clicks

\* createGraph(...).then(setGraphId, setGraph).catch(() => setStatus("error"))
CreateGraphSettled ==
    /\ Settled("fxCreate")
    /\ IF tasks["fxCreate"].net = "ok"
       THEN /\ GraphIdEffectIdle
            /\ app' = Render([app EXCEPT !.graphId = tasks["fxCreate"].resp.id,
                                         !.graph = tasks["fxCreate"].resp.payload])
            /\ tasks' = GraphIdEffect([tasks EXCEPT !["fxCreate"] = Idle],
                                      tasks["fxCreate"].resp.id)
       ELSE /\ app' = [app EXCEPT !.status = "error"]
            /\ tasks' = [tasks EXCEPT !["fxCreate"] = Idle]
    /\ UNCHANGED server
    /\ Acted
    /\ UNCHANGED clicks

\* getGraph(graphId).then(setGraph).catch(() => setStatus("error"))
EffectGetGraphSettled ==
    /\ Settled("fxGraph")
    /\ app' = IF tasks["fxGraph"].net = "ok"
              THEN Render([app EXCEPT !.graph = tasks["fxGraph"].resp.payload])
              ELSE [app EXCEPT !.status = "error"]
    /\ tasks' = [tasks EXCEPT !["fxGraph"] = Idle]
    /\ UNCHANGED server
    /\ Acted
    /\ UNCHANGED clicks

\* listEvidenceCards(graphId).then(setCards).catch(() => undefined)
EffectListCardsSettled ==
    /\ Settled("fxCards")
    /\ app' = IF tasks["fxCards"].net = "ok"
              THEN [app EXCEPT !.cards = tasks["fxCards"].resp.items]
              ELSE app
    /\ tasks' = [tasks EXCEPT !["fxCards"] = Idle]
    /\ UNCHANGED server
    /\ Acted
    /\ UNCHANGED clicks

\* listSupportingDocuments(graphId).then(setDocs).catch(() => undefined)
EffectListDocsSettled ==
    /\ Settled("fxDocs")
    /\ app' = IF tasks["fxDocs"].net = "ok"
              THEN [app EXCEPT !.docs = tasks["fxDocs"].resp.items]
              ELSE app
    /\ tasks' = [tasks EXCEPT !["fxDocs"] = Idle]
    /\ UNCHANGED server
    /\ Acted
    /\ UNCHANGED clicks

----------------------------------------------------------------------------
(* Selection *)

\* one more user action within the budget of the run
Click == clicks < MaxActions /\ clicks' = clicks + 1

\* onSelect={setSelection}; a Score Claim in flight notes that the selection
\* changed under it
Select(sel) ==
    /\ sel \in Selections(app.graph)
    /\ sel # app.selection
    /\ Click
    /\ app' = Render([app EXCEPT !.selection = sel])
    /\ tasks' = [t \in DOMAIN tasks |->
                    IF tasks[t].kind = "handleScoreClaim"
                    THEN [tasks[t] EXCEPT !.arg.reselected = TRUE] ELSE tasks[t]]
    /\ UNCHANGED server
    /\ Acted

\* a handler that returns before it changes anything
EarlyReturn(handler) ==
    /\ noop' = IF noop = "off" THEN "off" ELSE handler
    /\ UNCHANGED <<app, tasks, server, clicks, disk>>

----------------------------------------------------------------------------
(* Graph edits *)

\* updateGraphState(next), called by a handler of the current render that has
\* already made the state updates leading from app to a; kind and arg name the
\* handler that then waits for the PUT
\* an update of the local graph that sends nothing to the server
updateGraphStateLocal(a, next, kind, arg) ==
    /\ app' = IF a.graphId = "" THEN a
              ELSE Render([a EXCEPT !.graphRef = next, !.graph = next])
    /\ UNCHANGED <<tasks, server>>
    /\ Acted

updateGraphState(a, next, kind, arg) ==
    IF a.graphId = ""
    THEN /\ app' = a
         /\ UNCHANGED <<tasks, server>>
         /\ Acted
    ELSE /\ HasFreeSlot
         /\ app' = Render([a EXCEPT !.graphRef = next, !.graph = next])
         /\ tasks' = [tasks EXCEPT ![FreeSlot] =
                         Suspend(kind, "updateGraph", updateGraph(a.graphId, next), arg)]
         /\ UNCHANGED server
         /\ Acted

handleAddClaim(textOverride) ==
    LET current == app.graphRef
        textValue == IF textOverride = NoOverride THEN app.claimText ELSE textOverride
    IN IF current = Null THEN EarlyReturn("handleAddClaim")
       ELSE IF IsBlank(textValue) THEN EarlyReturn("handleAddClaim")
       ELSE LET nextId == ClaimId(Cardinality(DOMAIN current.units) + 1)
                nextGraph ==
                    [current EXCEPT !.units =
                        Ext(current.units, nextId,
                            [id |-> nextId, text |-> textValue, type |-> app.claimType])]
            IN /\ Click
               /\ updateGraphState([app EXCEPT !.claimText = ""], nextGraph,
                                   "handleAddClaim", Null)

\* a handler that refuses endpoints that are not units, loops and duplicates
handleAddRelationChecked(src, dst) ==
    LET current == app.graphRef
    IN IF current = Null THEN EarlyReturn("handleAddRelation")
       ELSE IF src = dst \/ {src, dst} \cap DOMAIN current.units # {src, dst}
               \/ \E i \in DOMAIN current.relations :
                     current.relations[i].src = src /\ current.relations[i].dst = dst
       THEN EarlyReturn("handleAddRelation")
       ELSE /\ Click
            /\ updateGraphState(app,
                  [current EXCEPT !.relations =
                      Append(current.relations,
                             [src |-> src, dst |-> dst, kind |-> app.relationKind])],
                  "handleAddRelation", Null)

handleAddRelation(src, dst) ==
    LET current == app.graphRef
    IN IF current = Null THEN EarlyReturn("handleAddRelation")
       ELSE IF src = "" \/ dst = "" THEN EarlyReturn("handleAddRelation")
       ELSE LET nextGraph ==
                    [current EXCEPT !.relations =
                        Append(current.relations,
                               [src |-> src, dst |-> dst, kind |-> app.relationKind])]
            IN /\ Click
               /\ updateGraphState(app, nextGraph, "handleAddRelation", Null)

\* a filter that drops only the relations leaving the unit
RelationsFromOthers(relations, id) ==
    SelectSeq(relations, LAMBDA rel : rel.src # id)

\* relations.filter((rel) => rel.src !== id && rel.dst !== id)
RelationsWithout(relations, id) ==
    SelectSeq(relations, LAMBDA rel : rel.src # id /\ rel.dst # id)

\* a handler whose updateGraphState returned at once: setSelection(null)
NothingToUpdate ==
    /\ app' = Render([app EXCEPT !.selection = Null])
    /\ UNCHANGED <<tasks, server>>
    /\ Acted

handleDeleteClaim ==
    LET current == app.graphRef
        selection == app.selection
    IN IF current = Null \/ selection = Null THEN EarlyReturn("handleDeleteClaim")
       ELSE IF selection.type # "node" THEN EarlyReturn("handleDeleteClaim")
       ELSE LET nextUnits == Del(current.units, selection.id)
                nextRelations == RelationsWithout(current.relations, selection.id)
            IN /\ Click
               /\ IF app.graphId = "" THEN NothingToUpdate ELSE
                  updateGraphState(app,
                                   [current EXCEPT !.units = nextUnits,
                                                   !.relations = nextRelations],
                                   "handleDeleteClaim", Null)

handleDeleteEdge ==
    LET current == app.graphRef
        selection == app.selection
    IN IF current = Null \/ selection = Null THEN EarlyReturn("handleDeleteEdge")
       ELSE IF selection.type # "edge" THEN EarlyReturn("handleDeleteEdge")
       ELSE LET index == EdgeIndex(selection.id)
                nextRelations == FilterOutIndex(current.relations, index)
            IN /\ Click
               /\ IF app.graphId = "" THEN NothingToUpdate ELSE
                  updateGraphState(app, [current EXCEPT !.relations = nextRelations],
                                   "handleDeleteEdge", Null)

----------------------------------------------------------------------------
(* Graph files: import and export *)

\* extractGraphPayload(raw): the graph document found in a bundle's payload, in
\* payload, in graph or at the top level, with the enclosing record as bundle
extractGraphPayload(raw) ==
    IF ~Truthy(raw) \/ ~TypeofObject(raw) THEN Null
    ELSE LET record == raw
             hasGraph(payload) ==
                 Truthy(Field(payload, "units")) /\ Truthy(Field(payload, "relations"))
         IN IF /\ Field(record, "kind") = JString("arglib-graph-bundle")
               /\ Truthy(Field(record, "payload"))
               /\ hasGraph(Field(record, "payload"))
            THEN [graph |-> Field(record, "payload"), bundle |-> record]
            ELSE IF Truthy(Field(record, "payload")) /\ hasGraph(Field(record, "payload"))
            THEN [graph |-> Field(record, "payload"), bundle |-> record]
            ELSE IF /\ Truthy(Field(record, "graph"))
                    /\ TypeofObject(Field(record, "graph"))
                    /\ hasGraph(Field(record, "graph"))
            THEN [graph |-> Field(record, "graph"), bundle |-> record]
            ELSE IF hasGraph(record)
            THEN [graph |-> record, bundle |-> JUndefined]
            ELSE Null

\* applyImportedGraph after `await updateGraphState(payload)`: the cached
\* results of the bundle replace the local ones where the bundle has them
ApplyBundle(a, bundle) ==
    IF ~Truthy(bundle) THEN a
    ELSE LET cached(key, old) ==
                 IF Truthy(Field(bundle, key)) THEN Field(bundle, key).fields ELSE old
             ids(key, old) ==
                 IF Truthy(Field(bundle, key)) /\ TypeofObject(Field(bundle, key))
                 THEN DOMAIN Field(bundle, key).fields ELSE old
         IN [a EXCEPT !.cards = ids("cards", @),
                      !.docs = ids("docs", @),
                      !.diagnostics = cached("diagnostics", @),
                      !.credibility = cached("credibility", @),
                      !.reasoning = cached("reasoning", @),
                      !.reasonerResults = cached("reasoner_results", @)]

\* the end of handleImportGraphFile's try block
ImportDone(a, bundle, name) ==
    logConsole(ApplyBundle(a, bundle), "Imported graph from " \o name)

\* a catch block that swallows the error
ImportFailedSilently(a, message) == a

\* the catch block of handleImportGraphFile
ImportFailed(a, message) == [a EXCEPT !.datasetError = message]

\* handleImportGraphFile(file); file.text() is taken to resolve at once
handleImportGraphFile(file) ==
    LET a == [app EXCEPT !.datasetError = ""]
        extracted == extractGraphPayload(file.json)
    IN /\ Click
       /\ IF ~file.valid
          THEN /\ app' = ImportFailed(a, "Unexpected token in JSON")
               /\ UNCHANGED <<tasks, server>>
               /\ Acted
          ELSE IF extracted = Null
          THEN /\ app' = ImportFailed(a, "File does not contain an ArgLib graph payload.")
               /\ UNCHANGED <<tasks, server>>
               /\ Acted
          ELSE IF a.graphId = ""
          THEN /\ app' = ImportDone(a, extracted.bundle, file.name)
               /\ UNCHANGED <<tasks, server>>
               /\ Acted
          ELSE updateGraphState(a, JsonToGraph(extracted.graph), "handleImportGraphFile",
                                [bundle |-> extracted.bundle, name |-> file.name])

\* handleImportGraphFile after `await applyImportedGraph(...)`
ImportSettled(t) ==
    /\ tasks[t].kind = "handleImportGraphFile"
    /\ Settled(t)
    /\ app' = IF tasks[t].net = "ok"
              THEN ImportDone(app, tasks[t].arg.bundle, tasks[t].arg.name)
              ELSE ImportFailed(app, RequestError(tasks[t].resp.status))
    /\ tasks' = [tasks EXCEPT ![t] = Idle]
    /\ UNCHANGED <<server, clicks>>
    /\ Acted

\* a bundle that carries the graph under a key of its own
ExportBundleUnderData(a) ==
    JObject([kind |-> JString("arglib-graph-bundle"),
             version |-> JNumber(1),
             data |-> GraphToJson(a.graph)])

\* the bundle handleDownloadGraph builds from the local state
ExportBundle(a) ==
    JObject([kind |-> JString("arglib-graph-bundle"),
             version |-> JNumber(1),
             graph_id |-> IF a.graphId = "" THEN JNull ELSE JString(a.graphId),
             payload |-> GraphToJson(a.graph),
             diagnostics |-> ValueToJson(a.diagnostics),
             credibility |-> ValueToJson(a.credibility),
             reasoning |-> ValueToJson(a.reasoning),
             reasoner_results |-> ValueToJson(a.reasonerResults),
             cards |-> IdsToJson(a.cards),
             docs |-> IdsToJson(a.docs)])

\* the file a download leaves on disk
ExportFile(a) ==
    [name |-> "arglib-graph-" \o (IF a.graphId = "" THEN "export" ELSE a.graphId) \o ".json",
     valid |-> JsonStringify(ExportBundle(a)).valid,
     json |-> JsonStringify(ExportBundle(a)).json]

\* handleDownloadGraph; disk also remembers the graph that was exported
handleDownloadGraph ==
    IF app.graph = Null THEN EarlyReturn("handleDownloadGraph")
    ELSE /\ Click
         /\ disk' = [file |-> ExportFile(app), exportedGraph |-> app.graph]
         /\ app' = logConsole(app, "Exported graph bundle")
         /\ noop' = (IF noop = "off" THEN "off" ELSE "")
         /\ UNCHANGED <<tasks, server>>

\* the handlers whose last statement is `await updateGraphState(...)`: nothing is
\* left to run when the PUT settles, and a rejection is not caught
EditKinds == {"handleAddClaim", "handleAddRelation", "UpdateClaim", "UpdateEdge"}

EditSettled(t) ==
    /\ tasks[t].kind \in EditKinds
    /\ Settled(t)
    /\ tasks' = [tasks EXCEPT ![t] = Idle]
    /\ UNCHANGED <<app, server>>
    /\ Acted
    /\ UNCHANGED clicks

\* handleDeleteClaim and handleDeleteEdge after the await: setSelection(null),
\* skipped when updateGraph rejected
DeleteSettled(t) ==
    /\ tasks[t].kind \in {"handleDeleteClaim", "handleDeleteEdge"}
    /\ Settled(t)
    /\ app' = IF tasks[t].net = "ok" THEN Render([app EXCEPT !.selection = Null])
              ELSE app
    /\ tasks' = [tasks EXCEPT ![t] = Idle]
    /\ UNCHANGED server
    /\ Acted
    /\ UNCHANGED clicks

----------------------------------------------------------------------------
(* Credibility propagation and LLM scoring *)

\* a handler that lets the error of a nested call escape
ReturnUncaught(a, task, error) ==
    IF task.kind = "handleScoreClaim" THEN [a EXCEPT !.isScoringClaim = FALSE] ELSE a

\* what the handler in task gets back from `await handleRunCredibility()`, or
\* from an earlier await that threw: error is "" when nothing was thrown.
\* handleScoreClaim and the Validate Edge handler catch the error and clear
\* their busy flag; the other onClick handlers that call it have no catch
Return(a, task, error) ==
    IF task.kind = "handleScoreClaim"
    THEN LET caught == IF error = "" THEN a
                       ELSE logConsole([a EXCEPT !.llmError = error],
                                       "LLM scoring failed: " \o error)
         IN [caught EXCEPT !.isScoringClaim = FALSE]
    ELSE IF task.kind = "ValidateEdge"
    THEN LET done == IF error = ""
                     THEN logConsole(a, "Edge validation: " \o task.sel.id)
                     ELSE logConsole([a EXCEPT !.edgeValidationError = error],
                                     "Edge validation failed: " \o error)
         IN [done EXCEPT !.isValidatingEdge = FALSE]
    ELSE a

\* the first statements of handleRunCredibility, up to `await runCredibility`
RunCredibilityStart(a) ==
    logConsole([a EXCEPT !.isRunningCredibility = TRUE], "Credibility: propagation started")

\* a propagation that makes a unit for every scored id
PropagatedUnitsCreating(units, scores) ==
    [k \in DOMAIN units \cup DOMAIN scores |->
        IF k \in DOMAIN scores
        THEN [id |-> k, metadata |-> [claim_credibility_propagated |-> scores[k]]]
        ELSE units[k]]

\* nextUnits of handleRunCredibility: the scores of ids that are units go into
\* metadata.claim_credibility_propagated
PropagatedUnits(units, scores) ==
    [k \in DOMAIN units |->
        IF k \in DOMAIN scores
        THEN Ext(units[k], "metadata",
                 Ext(MetadataOf(units[k]), "claim_credibility_propagated", scores[k]))
        ELSE units[k]]

\* the Run Credibility button
handleRunCredibility ==
    IF app.graphId = "" THEN EarlyReturn("handleRunCredibility")
    ELSE /\ Click
         /\ HasFreeSlot
         /\ app' = RunCredibilityStart(app)
         /\ tasks' = [tasks EXCEPT ![FreeSlot] =
                         Suspend("handleRunCredibility", "runCredibility",
                                 runCredibility(app.graphId), Null)]
         /\ UNCHANGED server
         /\ Acted

\* handleRunCredibility after `await runCredibility(graphId)`, whoever called it
RunCredibilitySettled(t) ==
    LET task == tasks[t]
        result == task.resp
        scores == IF "final_scores" \in DOMAIN result THEN result.final_scores
                  ELSE EmptyObj
        current == app.graphRef
        stored == logConsole([app EXCEPT !.credibility = result],
                             "Credibility: iterations -")
        next == [current EXCEPT !.units = PropagatedUnits(current.units, scores)]
    IN /\ task.pc = "runCredibility"
       /\ Settled(t)
       /\ IF task.net = "err"
          THEN /\ app' = Return([app EXCEPT !.isRunningCredibility = FALSE], task,
                                RequestError(task.resp.status))
               /\ tasks' = [tasks EXCEPT ![t] = Idle]
          ELSE IF current # Null /\ DOMAIN scores # {}
          THEN /\ app' = Render([stored EXCEPT !.graphRef = next, !.graph = next])
               /\ tasks' = [tasks EXCEPT ![t] =
                               Await(IF task.kind = "handleScoreClaim"
                                     THEN [task EXCEPT !.arg.credibility = result]
                                     ELSE task,
                                     "applyScores", updateGraph(task.gid, next))]
          ELSE /\ app' = Return([stored EXCEPT !.isRunningCredibility = FALSE], task, "")
               /\ tasks' = [tasks EXCEPT ![t] = Idle]
       /\ UNCHANGED <<server, clicks>>
       /\ Acted

\* handleRunCredibility after `await updateGraphState({...current, units: nextUnits})`
ApplyScoresSettled(t) ==
    LET task == tasks[t]
    IN /\ task.pc = "applyScores"
       /\ Settled(t)
       /\ app' = IF task.net = "ok"
                 THEN Return([logConsole(app, "Credibility: propagated scores applied to graph")
                                 EXCEPT !.isRunningCredibility = FALSE], task, "")
                 ELSE Return([app EXCEPT !.isRunningCredibility = FALSE], task,
                             RequestError(task.resp.status))
       /\ tasks' = [tasks EXCEPT ![t] = Idle]
       /\ UNCHANGED <<server, clicks>>
       /\ Acted

\* the Score Claim button; arg remembers what each step answered
handleScoreClaim ==
    IF app.graphId = "" \/ app.selection = Null THEN EarlyReturn("handleScoreClaim")
    ELSE IF app.selection.type # "node" THEN EarlyReturn("handleScoreClaim")
    ELSE /\ Click
         /\ HasFreeSlot
         /\ app' = logConsole([app EXCEPT !.llmError = "", !.isScoringClaim = TRUE],
                              "LLM scoring: " \o app.selection.id)
         /\ tasks' = [tasks EXCEPT ![FreeSlot] =
                         Suspend("handleScoreClaim", "scoreClaimConfidence",
                                 scoreClaimConfidence(app.graphId, app.selection.id,
                                     [provider |-> "openai", model |-> "gpt-5-mini"]),
                                 [result |-> Null, refreshed |-> Null, credibility |-> Null,
                                  reselected |-> FALSE])]
         /\ UNCHANGED server
         /\ Acted

\* handleScoreClaim after `await scoreClaimConfidence(...)`
ScoreClaimSettled(t) ==
    LET task == tasks[t]
    IN /\ task.pc = "scoreClaimConfidence"
       /\ Settled(t)
       /\ IF task.net = "ok"
          THEN /\ app' = logConsole([app EXCEPT !.llmResult = task.resp],
                                    "LLM scoring: " \o task.sel.id \o " score "
                                       \o ToFixed2(task.resp.score))
               /\ tasks' = [tasks EXCEPT ![t] =
                               Await([task EXCEPT !.arg.result = task.resp],
                                     "getGraph", getGraph(task.gid))]
          ELSE /\ app' = Return(app, task, RequestError(task.resp.status))
               /\ tasks' = [tasks EXCEPT ![t] = Idle]
       /\ UNCHANGED <<server, clicks>>
       /\ Acted

\* handleScoreClaim after `await getGraph(graphId)`: setGraph, then the call of
\* handleRunCredibility up to its first await
ScoreClaimRefreshed(t) ==
    LET task == tasks[t]
    IN /\ task.kind = "handleScoreClaim"
       /\ task.pc = "getGraph"
       /\ Settled(t)
       /\ IF task.net = "ok"
          THEN /\ app' = RunCredibilityStart(Render([app EXCEPT !.graph = task.resp.payload]))
               /\ tasks' = [tasks EXCEPT ![t] =
                               Await([task EXCEPT !.arg.refreshed = task.resp.payload],
                                     "runCredibility", runCredibility(task.gid))]
          ELSE /\ app' = Return(app, task, RequestError(task.resp.status))
               /\ tasks' = [tasks EXCEPT ![t] = Idle]
       /\ UNCHANGED <<server, clicks>>
       /\ Acted

----------------------------------------------------------------------------
(* Inspector buttons; each is rendered only for its kind of selection *)

NodeSelected == app.selection # Null /\ app.selection.type = "node"

EdgeSelected == app.selection # Null /\ app.selection.type = "edge"

\* Update Claim onClick
UpdateClaimOnClick ==
    LET current == app.graphRef
        selection == app.selection
    IN /\ NodeSelected
       /\ IF current = Null THEN EarlyReturn("UpdateClaim")
          ELSE /\ Click
               /\ updateGraphState(app,
                     [current EXCEPT !.units =
                         Ext(current.units, selection.id,
                             [id |-> selection.id, text |-> app.claimText,
                              type |-> app.claimType])],
                     "UpdateClaim", Null)

\* relations.map: the relation whose id is the selection takes relationKind
WithKind(relations, id, kind) ==
    [i \in 1..Len(relations) |->
        IF EdgeId(i - 1) = id THEN Ext(relations[i], "kind", kind) ELSE relations[i]]

\* Update Edge onClick
UpdateEdgeOnClick ==
    LET current == app.graphRef
    IN /\ EdgeSelected
       /\ IF current = Null THEN EarlyReturn("UpdateEdge")
          ELSE /\ Click
               /\ updateGraphState(app,
                     [current EXCEPT !.relations =
                         WithKind(current.relations, app.selection.id, app.relationKind)],
                     "UpdateEdge", Null)

\* onChange of the manual score input
setManualClaimScore(value) ==
    /\ NodeSelected
    /\ value # app.manualClaimScore
    /\ Click
    /\ app' = [app EXCEPT !.manualClaimScore = value]
    /\ UNCHANGED <<tasks, server>>
    /\ Acted

\* Set Manual Score onClick; reading the metadata of a unit that is not in the
\* graph throws before anything is changed
SetManualScoreOnClick ==
    LET current == app.graphRef
        score == NumberOf(app.manualClaimScore)
        id == app.selection.id
    IN /\ NodeSelected
       /\ IF score = NaN \/ score < -1000 \/ score > 1000
          THEN EarlyReturn("SetManualScore")
          ELSE IF current = Null THEN EarlyReturn("SetManualScore")
          ELSE IF id \notin DOMAIN current.units THEN EarlyReturn("SetManualScore")
          ELSE LET unit == current.units[id]
                   nextUnit ==
                       Ext(unit, "metadata",
                           Ext(Ext(MetadataOf(unit), "claim_credibility", score),
                               "claim_credibility_method", "manual"))
               IN /\ Click
                  /\ updateGraphState(app,
                        [current EXCEPT !.units = Ext(current.units, id, nextUnit)],
                        "SetManualScore", Null)

\* Clear Manual onClick
ClearManualOnClick ==
    LET current == app.graphRef
        id == app.selection.id
    IN /\ NodeSelected
       /\ IF current = Null THEN EarlyReturn("ClearManual")
          ELSE IF id \notin DOMAIN current.units THEN EarlyReturn("ClearManual")
          ELSE LET unit == current.units[id]
                   nextMeta == Del(Del(MetadataOf(unit), "claim_credibility"),
                                   "claim_credibility_method")
               IN /\ Click
                  /\ updateGraphState(app,
                        [current EXCEPT !.units =
                            Ext(current.units, id, Ext(unit, "metadata", nextMeta))],
                        "ClearManual", Null)

\* Set Manual Score and Clear Manual after `await updateGraphState(...)`: the
\* call of handleRunCredibility up to its first await
ManualScoreSettled(t) ==
    LET task == tasks[t]
        cleared == IF task.kind = "ClearManual"
                   THEN [app EXCEPT !.manualClaimScore = ""] ELSE app
    IN /\ task.kind \in {"SetManualScore", "ClearManual"}
       /\ task.pc = "updateGraph"
       /\ Settled(t)
       /\ IF task.net = "ok"
          THEN /\ app' = RunCredibilityStart(cleared)
               /\ tasks' = [tasks EXCEPT ![t] =
                               Await(task, "runCredibility", runCredibility(task.gid))]
          ELSE /\ app' = app
               /\ tasks' = [tasks EXCEPT ![t] = Idle]
       /\ UNCHANGED <<server, clicks>>
       /\ Acted

----------------------------------------------------------------------------
(* Evidence: supporting documents, evidence cards and their attachment *)

\* onChange of a text input: (event) => setX(event.target.value)
TextFields == {"claimText", "docName", "docUrl", "cardExcerpt", "miningText", "miningUrl"}

\* what the user types into a field: blank text where the handler trims its
\* input, and some text
Typed(field) ==
    CASE field = "claimText" -> {" "}
      [] field = "miningText" -> {" ", "A"}
      [] field = "miningUrl" -> {" ", "A"}
      [] OTHER -> {"A"}

setField(field, value) ==
    /\ field = "claimText" => NodeSelected
    /\ app[field] # value
    /\ Click
    /\ app' = [app EXCEPT ![field] = value]
    /\ UNCHANGED <<tasks, server>>
    /\ Acted

\* the document select of the card form and the buttons of the document list
setCardDocId(value) ==
    /\ value \in app.docs \cup {""}
    /\ app.cardDocId # value
    /\ Click
    /\ app' = [app EXCEPT !.cardDocId = value]
    /\ UNCHANGED <<tasks, server>>
    /\ Acted

\* the card select of the inspector
setAttachCardId(value) ==
    /\ NodeSelected
    /\ value \in app.cards \cup {""}
    /\ app.attachCardId # value
    /\ Click
    /\ app' = [app EXCEPT !.attachCardId = value]
    /\ UNCHANGED <<tasks, server>>
    /\ Acted

\* a handler starts with its first request
Start(kind, pc, req, arg) ==
    /\ Click
    /\ HasFreeSlot
    /\ tasks' = [tasks EXCEPT ![FreeSlot] = Suspend(kind, pc, req, arg)]
    /\ UNCHANGED <<app, server>>
    /\ Acted

\* the Add Document button
handleAddDocument ==
    IF app.graphId = "" \/ app.docName = "" \/ app.docUrl = ""
    THEN EarlyReturn("handleAddDocument")
    ELSE \E now \in Times :
            Start("handleAddDocument", "addSupportingDocument",
                  addSupportingDocument(app.graphId,
                      [id |-> DocId(now), name |-> app.docName,
                       type |-> app.docType, url |-> app.docUrl]),
                  Null)

\* handleAddDocument after each of its two awaits; a rejection is not caught
AddDocumentSettled(t) ==
    LET task == tasks[t]
    IN /\ task.kind = "handleAddDocument"
       /\ Settled(t)
       /\ IF task.net = "err"
          THEN /\ app' = app
               /\ tasks' = [tasks EXCEPT ![t] = Idle]
          ELSE IF task.pc = "addSupportingDocument"
          THEN /\ app' = app
               /\ tasks' = [tasks EXCEPT ![t] =
                               Await(task, "listSupportingDocuments",
                                     listSupportingDocuments(task.gid))]
          ELSE /\ app' = [app EXCEPT !.docs = task.resp.items, !.docName = "",
                                     !.docUrl = "", !.docType = "pdf"]
               /\ tasks' = [tasks EXCEPT ![t] = Idle]
       /\ UNCHANGED <<server, clicks>>
       /\ Acted

\* the card POST of handleAddCard, issued once the document id is known
CardRequest(graphId, docId, now) ==
    addEvidenceCard(graphId,
        [id |-> CardId(now),
         title |-> IF app.cardTitle # "" THEN app.cardTitle ELSE app.cardExcerpt,
         supporting_doc_id |-> docId,
         excerpt |-> app.cardExcerpt])

\* the Add Card button: with no document chosen, ensureUnassignedDoc posts the
\* "unassigned" document unless the docs of this render hold it
handleAddCard ==
    IF app.graphId = "" \/ app.cardExcerpt = "" THEN EarlyReturn("handleAddCard")
    ELSE \E now \in Times :
            LET card(docId) == CardRequest(app.graphId, docId, now)
            IN IF app.cardDocId # ""
               THEN Start("handleAddCard", "addEvidenceCard", card(app.cardDocId), Null)
               ELSE IF "unassigned" \in app.docs
               THEN Start("handleAddCard", "addEvidenceCard", card("unassigned"), Null)
               ELSE Start("handleAddCard", "ensureUnassignedDoc",
                          addSupportingDocument(app.graphId,
                              [id |-> "unassigned", name |-> "Unassigned",
                               type |-> "unknown", url |-> "about:blank"]),
                          card("unassigned"))

\* handleAddCard after each of its awaits; a rejection is not caught
AddCardSettled(t) ==
    LET task == tasks[t]
    IN /\ task.kind = "handleAddCard"
       /\ Settled(t)
       /\ IF task.net = "err"
          THEN /\ app' = app
               /\ tasks' = [tasks EXCEPT ![t] = Idle]
          ELSE IF task.pc = "ensureUnassignedDoc"
          THEN /\ app' = app
               /\ tasks' = [tasks EXCEPT ![t] =
                               Await(task, "ensureListDocuments",
                                     listSupportingDocuments(task.gid))]
          ELSE IF task.pc = "ensureListDocuments"
          THEN /\ app' = [app EXCEPT !.docs = task.resp.items]
               /\ tasks' = [tasks EXCEPT ![t] = Await(task, "addEvidenceCard", task.arg)]
          ELSE IF task.pc = "addEvidenceCard"
          THEN /\ app' = app
               /\ tasks' = [tasks EXCEPT ![t] =
                               Await(task, "listEvidenceCards", listEvidenceCards(task.gid))]
          ELSE /\ app' = [app EXCEPT !.cards = task.resp.items, !.cardTitle = "",
                                     !.cardExcerpt = ""]
               /\ tasks' = [tasks EXCEPT ![t] = Idle]
       /\ UNCHANGED <<server, clicks>>
       /\ Acted

\* the Attach Evidence button: handleAttachEvidence(selection.id)
handleAttachEvidence ==
    /\ NodeSelected
    /\ IF app.graphId = "" \/ app.attachCardId = ""
       THEN EarlyReturn("handleAttachEvidence")
       ELSE Start("handleAttachEvidence", "attachEvidenceCard",
                  attachEvidenceCard(app.graphId, app.selection.id, app.attachCardId),
                  Null)

\* an attach handler that ends after its POST
AttachEvidenceNoRefetch(t) ==
    /\ tasks[t].kind = "handleAttachEvidence"
    /\ Settled(t)
    /\ app' = app
    /\ tasks' = [tasks EXCEPT ![t] = Idle]
    /\ UNCHANGED <<server, clicks>>
    /\ Acted

\* handleAttachEvidence after each of its two awaits; a rejection is not caught
AttachEvidenceSettled(t) ==
    LET task == tasks[t]
    IN /\ task.kind = "handleAttachEvidence"
       /\ Settled(t)
       /\ IF task.net = "err"
          THEN /\ app' = app
               /\ tasks' = [tasks EXCEPT ![t] = Idle]
          ELSE IF task.pc = "attachEvidenceCard"
          THEN /\ app' = app
               /\ tasks' = [tasks EXCEPT ![t] = Await(task, "getGraph", getGraph(task.gid))]
          ELSE /\ app' = Render([app EXCEPT !.graph = task.resp.payload])
               /\ tasks' = [tasks EXCEPT ![t] = Idle]
       /\ UNCHANGED <<server, clicks>>
       /\ Acted

----------------------------------------------------------------------------
(* Argument mining *)

\* handleMineText and handleMineUrl up to their await
MiningStart(kind, label, req) ==
    /\ Click
    /\ HasFreeSlot
    /\ app' = logConsole([app EXCEPT !.miningError = "", !.isMining = TRUE], label)
    /\ tasks' = [tasks EXCEPT ![FreeSlot] = Suspend(kind, "parseMining", req, Null)]
    /\ UNCHANGED server
    /\ Acted

handleMineText ==
    IF IsBlank(app.miningText) THEN EarlyReturn("handleMineText")
    ELSE MiningStart("handleMineText", "Mining: openai/gpt-5-mini",
                     parseMining([text |-> app.miningText]))

handleMineUrl ==
    IF IsBlank(app.miningUrl) THEN EarlyReturn("handleMineUrl")
    ELSE MiningStart("handleMineUrl", "Mining URL: openai/gpt-5-mini",
                     parseMiningUrl([url |-> app.miningUrl]))

\* mining handlers that leave the analysis results of the old graph in place
MiningKeepsResults(t) ==
    LET task == tasks[t]
        label == IF task.kind = "handleMineText" THEN "Mining" ELSE "Mining URL"
    IN /\ task.kind \in {"handleMineText", "handleMineUrl"}
       /\ Settled(t)
       /\ IF task.net = "ok"
          THEN /\ app' = logConsole(
                            Render([app EXCEPT !.graphId = task.resp.id,
                                               !.graph = task.resp.payload,
                                               !.selection = Null,
                                               !.isMining = FALSE]),
                            label \o ": graph " \o task.resp.id \o " created")
               /\ IF task.resp.id = app.graphId
                  THEN tasks' = [tasks EXCEPT ![t] = Idle]
                  ELSE /\ GraphIdEffectIdle
                       /\ tasks' = GraphIdEffect([tasks EXCEPT ![t] = Idle], task.resp.id)
          ELSE /\ app' = logConsole(
                            [app EXCEPT !.miningError = RequestError(task.resp.status),
                                        !.isMining = FALSE],
                            label \o " failed: " \o RequestError(task.resp.status))
               /\ tasks' = [tasks EXCEPT ![t] = Idle]
       /\ UNCHANGED <<server, clicks>>
       /\ Acted

\* both handlers after the await; a new graphId runs the effect on [graphId]
MiningSettled(t) ==
    LET task == tasks[t]
        label == IF task.kind = "handleMineText" THEN "Mining" ELSE "Mining URL"
    IN /\ task.kind \in {"handleMineText", "handleMineUrl"}
       /\ Settled(t)
       /\ IF task.net = "ok"
          THEN /\ app' = logConsole(
                            Render([app EXCEPT !.graphId = task.resp.id,
                                               !.graph = task.resp.payload,
                                               !.selection = Null,
                                               !.diagnostics = Null,
                                               !.credibility = Null,
                                               !.reasoning = Null,
                                               !.reasonerResults = Null,
                                               !.isMining = FALSE]),
                            label \o ": graph " \o task.resp.id \o " created")
               /\ IF task.resp.id = app.graphId
                  THEN tasks' = [tasks EXCEPT ![t] = Idle]
                  ELSE /\ GraphIdEffectIdle
                       /\ tasks' = GraphIdEffect([tasks EXCEPT ![t] = Idle], task.resp.id)
          ELSE /\ app' = logConsole(
                            [app EXCEPT !.miningError = RequestError(task.resp.status),
                                        !.isMining = FALSE],
                            label \o " failed: " \o RequestError(task.resp.status))
               /\ tasks' = [tasks EXCEPT ![t] = Idle]
       /\ UNCHANGED <<server, clicks>>
       /\ Acted

----------------------------------------------------------------------------
(* LLM enrichments of the inspector: edge validation, implicit assumptions, *)
(* claim type                                                               *)

LlmBody == [provider |-> "openai", model |-> "gpt-5-mini"]

\* what POST .../validate answers with, and the same as the server stores it
EdgeValidationResponse == [evaluation |-> "supported", score |-> 700, provider |-> "openai"]

EdgeValidationStored ==
    JObject([evaluation |-> JString("supported"), score |-> JNumber(700),
             provider |-> JString("openai")])

\* POST /graphs/{id}/edges/{edgeId}/validate: an evaluation of a relation the
\* server holds, which the server may or may not write into the stored relation
ServeValidateEdge(t) ==
    /\ Serving(t, "validateEdge")
    /\ tasks[t].req.id \in DOMAIN server.graphs
    /\ LET id == tasks[t].req.id
           index == EdgeIndex(tasks[t].req.body.edgeId)
       IN /\ index >= 0 /\ index < Len(server.graphs[id].relations)
          /\ \E stored \in BOOLEAN :
                server' =
                   IF stored
                   THEN [server EXCEPT !.graphs[id].relations[index + 1] =
                            Ext(@, "metadata",
                                Ext(MetadataOf(@), "llm_validation", EdgeValidationStored))]
                   ELSE server
    /\ Answer(t, EdgeValidationResponse)
    /\ UNCHANGED <<app, clicks>>
    /\ Acted

\* POST /graphs/{id}/edges/{edgeId}/assumptions
ServeGenerateEdgeAssumptions(t) ==
    /\ Serving(t, "generateEdgeAssumptions")
    /\ tasks[t].req.id \in DOMAIN server.graphs
    /\ Answer(t, [edge_id |-> tasks[t].req.body.edgeId, assumptions |-> <<"A1">>])
    /\ UNCHANGED <<app, server, clicks>>
    /\ Acted

\* POST /graphs/{id}/units/{unitId}/claim-type: a type for a unit the server
\* holds, which the server may or may not write into the stored unit
ServeClassifyClaimType(t) ==
    /\ Serving(t, "classifyClaimType")
    /\ tasks[t].req.id \in DOMAIN server.graphs
    /\ LET id == tasks[t].req.id
           unitId == tasks[t].req.body.unitId
       IN /\ unitId \in DOMAIN server.graphs[id].units
          /\ \E stored \in BOOLEAN :
                server' =
                   IF stored
                   THEN [server EXCEPT !.graphs[id].units[unitId] = Ext(@, "type", "policy")]
                   ELSE server
    /\ Answer(t, [claim_type |-> "policy"])
    /\ UNCHANGED <<app, clicks>>
    /\ Acted

\* the Validate Edge button, disabled while a validation is running
ValidateEdgeOnClick ==
    /\ EdgeSelected
    /\ ~app.isValidatingEdge
    /\ IF app.graphId = "" THEN EarlyReturn("ValidateEdge")
       ELSE /\ Click
            /\ HasFreeSlot
            /\ app' = [app EXCEPT !.edgeValidationError = "", !.isValidatingEdge = TRUE]
            /\ tasks' = [tasks EXCEPT ![FreeSlot] =
                            Suspend("ValidateEdge", "validateEdge",
                                    validateEdge(app.graphId, app.selection.id, LlmBody),
                                    Null)]
            /\ UNCHANGED server
            /\ Acted

\* the Validate Edge handler after `await validateEdge(...)`
ValidateEdgeSettled(t) ==
    LET task == tasks[t]
    IN /\ task.pc = "validateEdge"
       /\ Settled(t)
       /\ IF task.net = "ok"
          THEN /\ app' = [app EXCEPT !.edgeValidation = task.resp]
               /\ tasks' = [tasks EXCEPT ![t] = Await(task, "getGraph", getGraph(task.gid))]
          ELSE /\ app' = Return(app, task, RequestError(task.resp.status))
               /\ tasks' = [tasks EXCEPT ![t] = Idle]
       /\ UNCHANGED <<server, clicks>>
       /\ Acted

\* the Validate Edge handler after `await getGraph(graphId)`: setGraph, then the
\* call of handleRunCredibility up to its first await
ValidateEdgeRefreshed(t) ==
    LET task == tasks[t]
    IN /\ task.kind = "ValidateEdge"
       /\ task.pc = "getGraph"
       /\ Settled(t)
       /\ IF task.net = "ok"
          THEN /\ app' = RunCredibilityStart(Render([app EXCEPT !.graph = task.resp.payload]))
               /\ tasks' = [tasks EXCEPT ![t] =
                               Await(task, "runCredibility", runCredibility(task.gid))]
          ELSE /\ app' = Return(app, task, RequestError(task.resp.status))
               /\ tasks' = [tasks EXCEPT ![t] = Idle]
       /\ UNCHANGED <<server, clicks>>
       /\ Acted

\* the Generate Assumptions button, disabled while a generation is running
GenerateAssumptionsOnClick ==
    /\ EdgeSelected
    /\ ~app.isGeneratingAssumptions
    /\ IF app.graphId = "" THEN EarlyReturn("GenerateAssumptions")
       ELSE /\ Click
            /\ HasFreeSlot
            /\ app' = [app EXCEPT !.edgeAssumptionsError = "",
                                  !.isGeneratingAssumptions = TRUE]
            /\ tasks' = [tasks EXCEPT ![FreeSlot] =
                            Suspend("GenerateAssumptions", "generateEdgeAssumptions",
                                    generateEdgeAssumptions(app.graphId, app.selection.id,
                                                            LlmBody),
                                    Null)]
            /\ UNCHANGED server
            /\ Acted

\* the Generate Assumptions handler after its await
\* a handler that drops the assumptions of an edge that is no longer selected
GenerateAssumptionsIfSelected(t) ==
    LET task == tasks[t]
        error == RequestError(task.resp.status)
    IN /\ task.pc = "generateEdgeAssumptions"
       /\ Settled(t)
       /\ app' = IF task.net = "ok"
                 THEN logConsole([app EXCEPT !.edgeAssumptions =
                                                 IF app.selection = task.sel
                                                 THEN task.resp ELSE @,
                                             !.isGeneratingAssumptions = FALSE],
                                 "Assumptions: " \o task.sel.id \o " generated")
                 ELSE logConsole([app EXCEPT !.edgeAssumptionsError = error,
                                             !.isGeneratingAssumptions = FALSE],
                                 "Assumptions failed: " \o error)
       /\ tasks' = [tasks EXCEPT ![t] = Idle]
       /\ UNCHANGED <<server, clicks>>
       /\ Acted

GenerateAssumptionsSettled(t) ==
    LET task == tasks[t]
        error == RequestError(task.resp.status)
    IN /\ task.pc = "generateEdgeAssumptions"
       /\ Settled(t)
       /\ app' = IF task.net = "ok"
                 THEN logConsole([app EXCEPT !.edgeAssumptions = task.resp,
                                             !.isGeneratingAssumptions = FALSE],
                                 "Assumptions: " \o task.sel.id \o " generated")
                 ELSE logConsole([app EXCEPT !.edgeAssumptionsError = error,
                                             !.isGeneratingAssumptions = FALSE],
                                 "Assumptions failed: " \o error)
       /\ tasks' = [tasks EXCEPT ![t] = Idle]
       /\ UNCHANGED <<server, clicks>>
       /\ Acted

\* the Classify Claim button, disabled while a classification is running
ClassifyClaimOnClick ==
    /\ NodeSelected
    /\ ~app.isClassifyingClaim
    /\ IF app.graphId = "" THEN EarlyReturn("ClassifyClaim")
       ELSE /\ Click
            /\ HasFreeSlot
            /\ app' = [app EXCEPT !.claimTypeError = "", !.isClassifyingClaim = TRUE]
            /\ tasks' = [tasks EXCEPT ![FreeSlot] =
                            Suspend("ClassifyClaim", "classifyClaimType",
                                    classifyClaimType(app.graphId, app.selection.id, LlmBody),
                                    Null)]
            /\ UNCHANGED server
            /\ Acted

\* the Classify Claim handler after each of its two awaits
ClassifyClaimSettled(t) ==
    LET task == tasks[t]
        error == RequestError(task.resp.status)
    IN /\ task.kind = "ClassifyClaim"
       /\ Settled(t)
       /\ IF task.net = "err"
          THEN /\ app' = logConsole([app EXCEPT !.claimTypeError = error,
                                                !.isClassifyingClaim = FALSE],
                                    "Claim type failed: " \o error)
               /\ tasks' = [tasks EXCEPT ![t] = Idle]
          ELSE IF task.pc = "classifyClaimType"
          THEN /\ app' = [app EXCEPT !.claimTypeResult = task.resp]
               /\ tasks' = [tasks EXCEPT ![t] =
                               Await([task EXCEPT !.arg = task.resp],
                                     "getGraph", getGraph(task.gid))]
          ELSE /\ app' = logConsole(
                            [Render([app EXCEPT !.graph = task.resp.payload])
                                EXCEPT !.isClassifyingClaim = FALSE],
                            "Claim type: " \o task.sel.id \o " -> " \o task.arg.claim_type)
               /\ tasks' = [tasks EXCEPT ![t] = Idle]
       /\ UNCHANGED <<server, clicks>>
       /\ Acted

----------------------------------------------------------------------------
(* The Cytoscape canvas: tap listeners and the Edge toggle *)

\* edgeSource is null or the id of a node, written [id |-> nodeId]

\* a call of one of the props, as <name, first argument, second argument>
OnSelectCall(sel) ==
    IF sel = Null THEN [fn |-> "onSelect", a |-> "null", b |-> ""]
    ELSE [fn |-> "onSelect", a |-> sel.type, b |-> sel.id]

OnAddEdgeCall(src, dst) == [fn |-> "onAddEdge", a |-> src, b |-> dst]

\* an onTap that adds an edge on every second tap in edge mode
CyOnTapAnyTarget(c, nodeId) ==
    IF c.edgeMode
    THEN IF c.edgeSource = Null
         THEN [c EXCEPT !.edgeSource = [id |-> nodeId]]
         ELSE [c EXCEPT !.edgeSource = Null,
                        !.calls = Append(@, OnAddEdgeCall(c.edgeSource.id, nodeId))]
    ELSE [c EXCEPT !.calls = Append(@, OnSelectCall([type |-> "node", id |-> nodeId]))]

\* onTap, the listener for taps on nodes
CyOnTap(c, nodeId) ==
    IF c.edgeMode
    THEN IF c.edgeSource = Null
         THEN [c EXCEPT !.edgeSource = [id |-> nodeId]]
         ELSE IF c.edgeSource.id # nodeId
         THEN [c EXCEPT !.edgeSource = Null,
                        !.calls = Append(@, OnAddEdgeCall(c.edgeSource.id, nodeId))]
         ELSE c
    ELSE [c EXCEPT !.calls = Append(@, OnSelectCall([type |-> "node", id |-> nodeId]))]

\* onEdgeTap, the listener for taps on edges
CyOnEdgeTap(c, edgeId) ==
    [c EXCEPT !.calls = Append(@, OnSelectCall([type |-> "edge", id |-> edgeId]))]

\* onBgTap, registered with cy.on("tap", ...) and no selector: a tap on an
\* element bubbles to the core, so it runs after the element's listener too
CyOnBgTap(c) == [c EXCEPT !.calls = Append(@, OnSelectCall(Null))]

\* the selection after the onSelect calls of one event, each of them
\* setSelection; intermediate is the selection of a render between two calls,
\* which React makes when it does not batch the updates of the event
SelectionAfter(a, calls) ==
    LET selects == SelectSeq(calls, LAMBDA call : call.fn = "onSelect")
        value(call) == IF call.a = "null" THEN Null ELSE [type |-> call.a, id |-> call.b]
    IN [final |-> IF selects = <<>> THEN a.selection ELSE value(selects[Len(selects)]),
        intermediate |-> IF Len(selects) < 2 THEN a.selection ELSE value(selects[1])]

\* a tap event on the canvas, c being the canvas after its listeners ran: the
\* props called are setSelection and (src, dst) => handleAddRelation(src, dst)
CyEvent(c) ==
    LET adds == SelectSeq(c.calls, LAMBDA call : call.fn = "onAddEdge")
        sel == SelectionAfter(app, c.calls)
        current == app.graphRef
    IN /\ Click
       /\ \E batched \in BOOLEAN :
             LET seen == IF batched THEN app
                         ELSE Render([app EXCEPT !.selection = sel.intermediate])
                 a == [seen EXCEPT !.canvas = c, !.selection = sel.final]
             IN IF adds # <<>> /\ current # Null
                THEN updateGraphState(a,
                        [current EXCEPT !.relations =
                            Append(current.relations,
                                   [src |-> adds[1].a, dst |-> adds[1].b,
                                    kind |-> app.relationKind])],
                        "handleAddRelation", Null)
                ELSE /\ app' = Render(a)
                     /\ UNCHANGED <<tasks, server>>
                     /\ Acted

CyTapNode(nodeId) ==
    /\ app.graph # Null
    /\ nodeId \in {app.graph.units[k].id : k \in DOMAIN app.graph.units}
    /\ CyEvent(CyOnBgTap(CyOnTap([app.canvas EXCEPT !.calls = <<>>], nodeId)))

CyTapEdge(edgeId) ==
    /\ app.graph # Null
    /\ edgeId \in {EdgeId(i - 1) : i \in 1..Len(app.graph.relations)}
    /\ CyEvent(CyOnBgTap(CyOnEdgeTap([app.canvas EXCEPT !.calls = <<>>], edgeId)))

CyTapBackground == CyEvent(CyOnBgTap([app.canvas EXCEPT !.calls = <<>>]))

\* the Edge: On/Off button
CyToggleEdgeMode ==
    /\ Click
    /\ app' = [app EXCEPT !.canvas.edgeMode = ~app.canvas.edgeMode,
                           !.canvas.edgeSource = Null,
                           !.canvas.calls = <<>>]
    /\ UNCHANGED <<tasks, server>>
    /\ Acted

----------------------------------------------------------------------------
(* The React Flow canvas: dragging, Layout LR and the diagnostics focus *)

DragPositions == {[x |-> 15, y |-> 25]}

\* the positions dagre computes are not modelled: each node gets one of these
DagrePositions == {[x |-> 0, y |-> 0], [x |-> 260, y |-> 120]}

FocusGroups == {<<>>, <<"c1">>}

\* onNodesChange with the position change of a dragged node
FlowDragNode(nodeId, position) ==
    /\ app.canvas.kind = "reactflow"
    /\ \E i \in DOMAIN app.canvas.nodes : app.canvas.nodes[i].id = nodeId
    /\ Click
    /\ app' = [app EXCEPT !.canvas.nodes =
                  [i \in DOMAIN @ |->
                      IF @[i].id = nodeId THEN [@[i] EXCEPT !.position = position]
                      ELSE @[i]]]
    /\ UNCHANGED <<tasks, server>>
    /\ Acted

layoutLeftToRight ==
    /\ app.canvas.kind = "reactflow"
    /\ app.canvas.nodes # <<>>
    /\ Click
    /\ \E layout \in [DOMAIN app.canvas.nodes -> DagrePositions] :
          app' = [app EXCEPT !.canvas.nodes =
                     [i \in DOMAIN @ |-> [@[i] EXCEPT !.position = layout[i]]]]
    /\ UNCHANGED <<tasks, server>>
    /\ Acted

\* the buttons of the diagnostics panel that focus a group of nodes or clear it
setDiagnosticFocus(group) ==
    /\ group # app.diagnosticFocus
    /\ Click
    /\ app' = Render([app EXCEPT !.diagnosticFocus = group])
    /\ UNCHANGED <<tasks, server>>
    /\ Acted

----------------------------------------------------------------------------
(* Diagnostics *)

\* the answer of a server that counts the payload it stores
DiagnosticsOf(g) ==
    LET of(kind) == Len(SelectSeq(g.relations, LAMBDA rel : rel.kind = kind))
    IN [node_count |-> Cardinality(DOMAIN g.units),
        relation_count |-> Len(g.relations),
        support_edge_count |-> of("support"),
        attack_edge_count |-> of("attack")]

\* POST /graphs/{id}/diagnostics
ServeRunDiagnostics(t) ==
    /\ Serving(t, "runDiagnostics")
    /\ tasks[t].req.id \in DOMAIN server.graphs
    /\ Answer(t, DiagnosticsOf(server.graphs[tasks[t].req.id]))
    /\ UNCHANGED <<app, server>>
    /\ Acted
    /\ UNCHANGED clicks

\* a handler that drops the answer of the server
DiagnosticsDropped(a, result) == a

\* setDiagnostics(result); setDiagnosticFocus([]); logConsole(...)
DiagnosticsStored(a, result) ==
    logConsole([a EXCEPT !.diagnostics = result, !.diagnosticFocus = <<>>],
               "Diagnostics: " \o ToString(result.node_count) \o " nodes, "
                  \o ToString(result.relation_count) \o " relations")

\* running diagnostics edits nothing and is not counted in clicks
handleRunDiagnostics ==
    IF app.graphId = "" THEN EarlyReturn("handleRunDiagnostics")
    ELSE /\ HasFreeSlot
         /\ app' = logConsole([app EXCEPT !.isRunningDiagnostics = TRUE],
                              "Diagnostics: request sent")
         /\ tasks' = [tasks EXCEPT ![FreeSlot] =
                         Suspend("handleRunDiagnostics", "runDiagnostics",
                                 runDiagnostics(app.graphId), Null)]
         /\ UNCHANGED <<server, clicks>>
         /\ Acted

\* after await runDiagnostics: the finally block runs in both cases, a
\* rejection is not caught
DiagnosticsSettled(t) ==
    LET task == tasks[t]
    IN /\ task.pc = "runDiagnostics"
       /\ Settled(t)
       /\ app' = IF task.net = "err"
                 THEN [app EXCEPT !.isRunningDiagnostics = FALSE]
                 ELSE Render([DiagnosticsStored(app, task.resp)
                                 EXCEPT !.isRunningDiagnostics = FALSE])
       /\ tasks' = [tasks EXCEPT ![t] = Idle]
       /\ UNCHANGED <<server, clicks>>
       /\ Acted

----------------------------------------------------------------------------
(* Reasoning *)

Semantics == {"grounded", "preferred"}

\* POST /graphs/{id}/reasoning; the extensions themselves are not modelled
ServeRunReasoning(t) ==
    /\ Serving(t, "runReasoning")
    /\ tasks[t].req.id \in DOMAIN server.graphs
    /\ Answer(t, [semantics |-> tasks[t].req.body.semantics,
                  arguments |-> <<>>, extensions |-> <<>>])
    /\ UNCHANGED <<app, server>>
    /\ Acted
    /\ UNCHANGED clicks

handleRunReasoning(semantics) ==
    IF app.graphId = "" THEN EarlyReturn("handleRunReasoning")
    ELSE /\ Click
         /\ HasFreeSlot
         /\ app' = logConsole([app EXCEPT !.reasoningError = ""],
                              "Reasoning requested: " \o semantics)
         /\ tasks' = [tasks EXCEPT ![FreeSlot] =
                         Suspend("handleRunReasoning", "runReasoning",
                                 runReasoning(app.graphId, [semantics |-> semantics]),
                                 Null)]
         /\ UNCHANGED server
         /\ Acted

\* a handler that keeps the reasoning result it already has
ReasoningFirstWins(a, result) == IF a.reasoning = Null THEN [a EXCEPT !.reasoning = result] ELSE a

\* setReasoning(result)
ReasoningStored(a, result) == [a EXCEPT !.reasoning = result]

\* after await runReasoning, with its catch block
ReasoningSettled(t) ==
    LET task == tasks[t]
        semantics == task.req.body.semantics
        error == RequestError(task.resp.status)
    IN /\ task.pc = "runReasoning"
       /\ Settled(t)
       /\ app' = IF task.net = "ok"
                 THEN logConsole(ReasoningStored(app, task.resp),
                                 "Reasoning: " \o semantics \o " returned "
                                    \o ToString(Len(task.resp.extensions)) \o " extensions")
                 ELSE logConsole([app EXCEPT !.reasoningError = error],
                                 "Reasoning failed: " \o error)
       /\ tasks' = [tasks EXCEPT ![t] = Idle]
       /\ UNCHANGED <<server, clicks>>
       /\ Acted

----------------------------------------------------------------------------
(* Specifications *)

\* the mount effects alone, from the first render
NextMount ==
    \/ \E t \in Slots : ServeHealth(t)
    \/ \E t \in Slots : ServeCreateGraph(t)
    \/ \E t \in Slots : ServeGetGraph(t)
    \/ \E t \in Slots : ServeListEvidenceCards(t)
    \/ \E t \in Slots : ServeListSupportingDocuments(t)
    \/ \E t \in Slots : ServeError(t)
    \/ HealthSettled
    \/ CreateGraphSettled
    \/ EffectGetGraphSettled
    \/ EffectListCardsSettled
    \/ EffectListDocsSettled

SpecMount == Init /\ [][NextMount]_vars

\* an editing session on the loaded graph: selection and every way of editing
\* the graph, from the canvas, the inspector, the credibility run and a file
Next ==
    \/ \E t \in Slots : ServeUpdateGraph(t)
    \/ \E t \in Slots : ServeRunCredibility(t)
    \/ \E t \in Slots : ServeError(t)
    \/ \E sel \in Selections(app.graph) : Select(sel)
    \/ \E text \in {"New claim"} : handleAddClaim(text)
    \/ \E src, dst \in UnitIds(app.graph) : handleAddRelation(src, dst)
    \/ handleDeleteClaim
    \/ handleDeleteEdge
    \/ UpdateClaimOnClick
    \/ UpdateEdgeOnClick
    \/ SetManualScoreOnClick
    \/ ClearManualOnClick
    \/ handleRunCredibility
    \/ \E file \in BundleFiles : handleImportGraphFile(file)
    \/ \E t \in HandlerSlots : EditSettled(t)
    \/ \E t \in HandlerSlots : DeleteSettled(t)
    \/ \E t \in HandlerSlots : ImportSettled(t)
    \/ \E t \in HandlerSlots : ManualScoreSettled(t)
    \/ \E t \in HandlerSlots : RunCredibilitySettled(t)
    \/ \E t \in HandlerSlots : ApplyScoresSettled(t)

Spec == InitReady /\ [][Next]_vars

\* a session of graph files: imports, exports and edits in between
NextFiles ==
    \/ \E t \in Slots : ServeUpdateGraph(t)
    \/ \E t \in Slots : ServeError(t)
    \/ \E file \in Files : handleImportGraphFile(file)
    \/ handleDownloadGraph
    \/ \E text \in {"New claim"} : handleAddClaim(text)
    \/ \E src, dst \in UnitIds(app.graph) : handleAddRelation(src, dst)
    \/ \E t \in HandlerSlots : EditSettled(t)
    \/ \E t \in HandlerSlots : ImportSettled(t)

SpecFiles == InitReady /\ [][NextFiles]_vars

\* a scoring session: a graph is imported, a unit selected and scored
NextScore ==
    \/ \E t \in Slots : ServeUpdateGraph(t)
    \/ \E t \in Slots : ServeGetGraph(t)
    \/ \E t \in Slots : ServeRunCredibility(t)
    \/ \E t \in Slots : ServeScoreClaimConfidence(t)
    \/ \E t \in Slots : ServeError(t)
    \/ \E file \in BundleFiles : handleImportGraphFile(file)
    \/ \E sel \in Selections(app.graph) : Select(sel)
    \/ handleScoreClaim
    \/ handleRunCredibility
    \/ \E t \in HandlerSlots : ImportSettled(t)
    \/ \E t \in HandlerSlots : ScoreClaimSettled(t)
    \/ \E t \in HandlerSlots : ScoreClaimRefreshed(t)
    \/ \E t \in HandlerSlots : RunCredibilitySettled(t)
    \/ \E t \in HandlerSlots : ApplyScoresSettled(t)

SpecScore == InitReady /\ [][NextScore]_vars

\* the state after bundle.json was imported into the fresh graph and its PUT
\* succeeded
LoadedApp ==
    ImportDone(Render([ReadyApp EXCEPT !.graphRef = SampleGraph, !.graph = SampleGraph]),
               SampleBundle, "bundle.json")

LoadedServer == [ReadyServer EXCEPT !.graphs["g1"] = SampleGraph]

\* from there on, early returns are recorded in noop
InitLoaded ==
    /\ app = LoadedApp
    /\ tasks = [t \in EffectSlots \cup SerialSlots |-> Idle]
    /\ server = LoadedServer
    /\ noop = ""
    /\ clicks = 0
    /\ disk = Null

\* a session in the forms: claims, relations, documents, cards, attachment and
\* mining, with the inputs the handlers take and the fields the user fills in;
\* the mining endpoints are out of service
NextForms ==
    \/ \E t \in Slots : ServeUpdateGraph(t)
    \/ \E t \in Slots : ServeGetGraph(t)
    \/ \E t \in Slots : ServeListEvidenceCards(t)
    \/ \E t \in Slots : ServeListSupportingDocuments(t)
    \/ \E t \in Slots : ServeAddSupportingDocument(t)
    \/ \E t \in Slots : ServeAddEvidenceCard(t)
    \/ \E t \in Slots : ServeAttachEvidenceCard(t)
    \/ \E t \in Slots : ServeError(t)
    \/ \E sel \in NodeSelections(app.graph) : Select(sel)
    \/ \E field \in TextFields : \E value \in Typed(field) : setField(field, value)
    \/ \E value \in app.cards \cup {""} : setAttachCardId(value)
    \/ \E text \in Texts \cup {NoOverride} : handleAddClaim(text)
    \/ \E src, dst \in {"", "c1"} : handleAddRelation(src, dst)
    \/ handleAddDocument
    \/ handleAddCard
    \/ handleAttachEvidence
    \/ handleMineText
    \/ handleMineUrl
    \/ \E t \in HandlerSlots : EditSettled(t)
    \/ \E t \in HandlerSlots : AddDocumentSettled(t)
    \/ \E t \in HandlerSlots : AddCardSettled(t)
    \/ \E t \in HandlerSlots : AttachEvidenceSettled(t)
    \/ \E t \in HandlerSlots : MiningSettled(t)

SpecForms == InitLoaded /\ [][NextForms]_vars

----------------------------------------------------------------------------
(* Steps of a behaviour, for the properties below *)

\* slot t is taken by a handler of this kind in the step
Started(t, kind) == tasks[t] = Idle /\ tasks'[t].kind = kind

\* a PUT /graphs/{id} is issued from slot t in the step
PutIssued(t) ==
    /\ tasks'[t].req.op = "updateGraph"
    /\ tasks'[t].net = "sent"
    /\ tasks'[t] # tasks[t]

\* the handler in slot t finishes in the step
Finished(t) == tasks[t] # Idle /\ tasks'[t] = Idle

\* kept[j] is the j-th element of all that does not name unit u
KeptInOrder(all, kept, u) ==
    LET keep(i) == all[i].src # u /\ all[i].dst # u
        keptIdx == {i \in 1..Len(all) : keep(i)}
    IN /\ Len(kept) = Cardinality(keptIdx)
       /\ \A i \in keptIdx :
             kept[Cardinality({k \in keptIdx : k <= i})] = all[i]

----------------------------------------------------------------------------
(* C1: a failed HTTP call leaves graph, selection, cards, docs, dataset      *)
(* items, diagnostics, credibility and reasoning results as they were        *)
(* before the action: stated as in the specification, and refuted            *)
C1_FailedCallLeavesState ==
    [][\A t \in HandlerSlots :
          (tasks[t].net = "err" /\ Finished(t)) => LocalSlice(app') = tasks[t].pre]_vars

(* C2: handleDeleteClaim with node selection u removes unit u and every      *)
(* relation whose src or dst is u, keeps every other unit unchanged and      *)
(* keeps the other relations in their order                                   *)
C2_DeleteClaimRemovesRelations ==
    [][\A t \in HandlerSlots :
          Started(t, "handleDeleteClaim") =>
             LET u == app.selection.id
                 G == app.graph
                 G2 == app'.graph
             IN /\ u \notin DOMAIN G2.units
                /\ \A i \in 1..Len(G2.relations) :
                      G2.relations[i].src # u /\ G2.relations[i].dst # u
                /\ DOMAIN G2.units = (DOMAIN G.units) \ {u}
                /\ \A k \in DOMAIN G2.units : G2.units[k] = G.units[k]
                /\ KeptInOrder(G.relations, G2.relations, u)]_vars

\* a delete that removes a unit and some relations and keeps at least two
C2_Witness ==
    \E t \in HandlerSlots :
       /\ tasks[t].kind = "handleDeleteClaim"
       /\ tasks[t].pre.graph # Null
       /\ Len(app.graph.relations) >= 2
       /\ Len(tasks[t].pre.graph.relations) > Len(app.graph.relations)
       /\ Cardinality(DOMAIN tasks[t].pre.graph.units)
             > Cardinality(DOMAIN app.graph.units)

(* C3: once handleDeleteClaim has removed the selected unit and finished,    *)
(* the selection is null, whatever the outcome of the PUT: stated as in the  *)
(* specification, and refuted                                                 *)
C3_DeleteClearsSelection ==
    [][\A t \in HandlerSlots :
          (tasks[t].kind = "handleDeleteClaim" /\ Finished(t))
             => app'.selection = Null]_vars

(* C5: the projected element list has one node per unit and one edge per     *)
(* relation, the React Flow adapter splits it into nodes and edges with the  *)
(* same counts, and the list of a null graph is empty                        *)
C5_ProjectionCounts ==
    /\ Elements(Null) = <<>>
    /\ app.graph # Null =>
          LET elements == Elements(app.graph)
              flow == SyncElements(elements, EmptyObj, 0, [nodes |-> <<>>, edges |-> <<>>])
              nodeCount == Cardinality({i \in 1..Len(elements) : ~IsEdgeElement(elements[i])})
              edgeCount == Cardinality({i \in 1..Len(elements) : IsEdgeElement(elements[i])})
          IN /\ nodeCount = Cardinality(DOMAIN app.graph.units)
             /\ edgeCount = Len(app.graph.relations)
             /\ Len(elements) = nodeCount + edgeCount
             /\ Len(flow.nodes) = nodeCount
             /\ Len(flow.edges) = edgeCount
             /\ {elements[i].data.id : i \in 1..Len(elements)}
                   = {sel.id : sel \in Selections(app.graph) \ {Null}}

C5_Witness ==
    /\ app.graph # Null
    /\ Cardinality(DOMAIN app.graph.units) >= 2
    /\ Len(app.graph.relations) >= 2

(* C7: every graph edit sets the local graph and issues exactly one PUT      *)
(* whose body is the whole new graph, equal to the local graph at that       *)
(* moment                                                                     *)
C7_EditsPutFullGraph ==
    [][/\ \A t \in HandlerSlots :
             PutIssued(t) =>
                /\ tasks'[t].req.body = app'.graph
                /\ tasks'[t].req.id = app.graphId
                /\ DOMAIN tasks'[t].req.body = {"units", "relations"}
                /\ tasks'[t].req.tries = 1
       /\ app'.graph # app.graph =>
             Cardinality({t \in HandlerSlots : PutIssued(t)}) = 1]_vars

C7_Witness ==
    \E t \in HandlerSlots :
       /\ tasks[t].req.op = "updateGraph"
       /\ tasks[t].net = "sent"
       /\ tasks[t].req.body = app.graph
       /\ tasks[t].pre.graph # app.graph

(* C4: the file written by handleDownloadGraph is recognised by             *)
(* extractGraphPayload as a bundle, and importing it with graphId set makes *)
(* the local graph equal, unit by unit and relation by relation, to the     *)
(* graph that was exported                                                   *)
C4_ExportImportRoundTrip ==
    [][disk' # Null =>
          LET extracted == extractGraphPayload(disk'.file.json)
              G == disk'.exportedGraph
          IN /\ disk'.file.valid
             /\ extracted # Null
             /\ extracted.bundle = disk'.file.json
             /\ Field(extracted.bundle, "kind") = JString("arglib-graph-bundle")
             /\ \A t \in HandlerSlots :
                   ( /\ disk # Null
                     /\ Started(t, "handleImportGraphFile")
                     /\ tasks'[t].arg.name = disk.file.name )
                   => /\ DOMAIN app'.graph.units = DOMAIN G.units
                      /\ \A u \in DOMAIN G.units : app'.graph.units[u] = G.units[u]
                      /\ app'.graph.relations = G.relations
                      /\ tasks'[t].req.body = G]_vars

\* an exported graph with units and relations has been imported again
C4_Witness ==
    /\ disk # Null
    /\ Len(disk.exportedGraph.relations) >= 2
    /\ \E t \in HandlerSlots :
          /\ tasks[t].kind = "handleImportGraphFile"
          /\ tasks[t].arg.name = disk.file.name
          /\ app.graph = disk.exportedGraph

\* the file is not JSON, or holds units and relations neither at the top
\* level nor under payload nor under graph
NoGraphPayload(file) ==
    LET holds(v) == /\ v.t = "object"
                    /\ Truthy(Field(v, "units"))
                    /\ Truthy(Field(v, "relations"))
    IN \/ ~file.valid
       \/ /\ ~holds(file.json)
          /\ ~holds(Field(file.json, "payload"))
          /\ ~holds(Field(file.json, "graph"))

(* C9: handleImportGraphFile on a file that is not JSON or has no graph     *)
(* payload in a recognised position sets datasetError to a non-empty        *)
(* message, issues no request, logs nothing and leaves graph, cards, docs   *)
(* and the cached results unchanged                                          *)
C9_BadImportOnlySetsError ==
    [][\A file \in Files :
          (NoGraphPayload(file) /\ handleImportGraphFile(file)) =>
             /\ app'.datasetError # ""
             /\ tasks' = tasks
             /\ server' = server
             /\ app'.consoleEntries = app.consoleEntries
             /\ LocalSlice(app') = LocalSlice(app)
             /\ app'.graphId = app.graphId]_vars

\* a broken file was imported over a graph with content
C9_Witness ==
    /\ app.datasetError \in {"Unexpected token in JSON",
                             "File does not contain an ArgLib graph payload."}
    /\ app.graph # Null
    /\ Len(app.graph.relations) >= 2
    /\ app.cards # {}

\* the requests of the score-claim action, in the order of the handler
ScoreSteps == <<"scoreClaimConfidence", "getGraph", "runCredibility", "applyScores">>

\* the request each step issues
ScoreStepOps == <<"scoreClaimConfidence", "getGraph", "runCredibility", "updateGraph">>

\* the number of the step the Score Claim in slot t is at
ScoreStep(task) == CHOOSE k \in 1..4 : ScoreSteps[k] = task.pc

\* the steps come in order, each after the one before it has succeeded, and a
\* failure ends the action with llmError set and isScoringClaim false
ScoreClaimSequenced(t) ==
    /\ Started(t, "handleScoreClaim") =>
          /\ tasks'[t].pc = ScoreSteps[1]
          /\ app'.isScoringClaim
    /\ (tasks[t].kind = "handleScoreClaim" /\ tasks'[t].pc # tasks[t].pc) =>
          \/ tasks'[t] = Idle
          \/ /\ tasks[t].net = "ok"
             /\ ScoreStep(tasks'[t]) = ScoreStep(tasks[t]) + 1
    /\ tasks'[t].kind = "handleScoreClaim" =>
          /\ tasks'[t].req.op = ScoreStepOps[ScoreStep(tasks'[t])]
          /\ tasks'[t].req.tries = 1
    /\ (tasks[t].kind = "handleScoreClaim" /\ tasks[t].net = "err"
          /\ <<tasks'[t].kind, tasks'[t].pc, tasks'[t].net, tasks'[t].req>>
                # <<tasks[t].kind, tasks[t].pc, tasks[t].net, tasks[t].req>>) =>
          /\ tasks'[t] = Idle
          /\ app'.llmError = RequestError(tasks[t].resp.status)
          /\ app'.llmError # ""
          /\ ~app'.isScoringClaim

\* after a failure of step k the refreshed graph (k > 2) and the credibility
\* result (k > 3) are in the local state
ScoreClaimKeepsGraphAndCredibility(t) ==
    (tasks[t].kind = "handleScoreClaim" /\ tasks[t].net = "err" /\ Finished(t)) =>
       LET task == tasks[t]
           k == ScoreStep(task)
       IN /\ k = 3 => app'.graph = task.arg.refreshed
          /\ k = 4 =>
                /\ app'.credibility = task.arg.credibility
                /\ app'.graph.relations = task.arg.refreshed.relations
                /\ app'.graph.units =
                      PropagatedUnits(task.arg.refreshed.units,
                                      task.arg.credibility.final_scores)

(* C10 as stated: the steps of Score Claim run in order, and when step k     *)
(* fails the updates of the steps before it, llmResult among them, stay      *)
(* applied, no later step is issued, llmError is set and isScoringClaim is   *)
(* false; refuted, because llmResult does not stay                            *)
C10_ScoreClaimKeepsAllUpdates ==
    [][\A t \in HandlerSlots :
          /\ ScoreClaimSequenced(t)
          /\ ScoreClaimKeepsGraphAndCredibility(t)
          /\ ( /\ tasks[t].kind = "handleScoreClaim"
               /\ tasks[t].net = "err"
               /\ Finished(t)
               /\ ~tasks[t].arg.reselected
               /\ ScoreStep(tasks[t]) > 1 )
             => app'.llmResult = tasks[t].arg.result]_vars

(* C10 amended: as above, except that llmResult holds the answer of step 1  *)
(* only until the graph is refreshed; from then on it is what the node       *)
(* selection effect derives from the selected unit of the current graph      *)
C10_ScoreClaimSequencedNoRollback ==
    [][\A t \in HandlerSlots :
          /\ ScoreClaimSequenced(t)
          /\ ScoreClaimKeepsGraphAndCredibility(t)
          /\ ( /\ tasks[t].kind = "handleScoreClaim"
               /\ tasks[t].net = "err"
               /\ Finished(t)
               /\ ~tasks[t].arg.reselected
               /\ ScoreStep(tasks[t]) > 1 )
             => app'.llmResult =
                   IF ScoreStep(tasks[t]) = 2 THEN tasks[t].arg.result
                   ELSE NodeSelectionEffect(
                            [app' EXCEPT !.llmResult = tasks[t].arg.result]).llmResult]_vars

\* Score Claim has failed at its last step, after the scores were applied
C10_Witness ==
    /\ app.llmError # ""
    /\ ~app.isScoringClaim
    /\ app.credibility # Null
    /\ app.graph # Null
    /\ "c1" \in DOMAIN app.graph.units
    /\ "claim_credibility_propagated" \in DOMAIN MetadataOf(app.graph.units["c1"])
    /\ \A t \in HandlerSlots : tasks[t] = Idle

\* createGraph has failed: its promise is settled and there is no graph id
CreateGraphFailed(a, ts) == a.graphId = "" /\ ts["fxCreate"] = Idle

\* one fetch per request, the status in the message of the Error, and no
\* request issued again after it failed
OneFetchNoRetry ==
    /\ \A t \in Slots :
          /\ tasks'[t].net = "sent" => tasks'[t].req.tries = 1
          /\ (tasks[t].net = "err" /\ tasks'[t] # tasks[t]) =>
                /\ tasks'[t] = Idle
                /\ \A u \in Slots : tasks'[u].net = "sent" => tasks[u].net = "sent"
                /\ tasks[t].resp.status # 0 =>
                      RequestError(tasks[t].resp.status)
                         = "Request failed: " \o StatusText(tasks[t].resp.status)
    /\ CreateGraphFailed(app, tasks) =>
          /\ CreateGraphFailed(app', tasks')
          /\ app'.graph = Null
          /\ \A t \in Slots : tasks'[t].req.op # "createGraph"
    /\ (tasks["fxCreate"].net = "err" /\ tasks'["fxCreate"] = Idle) =>
          /\ CreateGraphFailed(app', tasks')
          /\ app'.status = "error"

(* C6: request() fetches once and throws 'Request failed: <status>', nothing  *)
(* is retried, and after a failed createGraph graphId stays null and status   *)
(* stays 'error'. The code breaks the last part: the answer of fetchHealth,   *)
(* when it arrives after the failure, overwrites 'error'                      *)
C6_NoRetryStatusStaysError ==
    [][/\ OneFetchNoRetry
       /\ (CreateGraphFailed(app, tasks) /\ app.status = "error") =>
             app'.status = "error"]_vars

\* what the code does keep of it: one fetch, no retry, and a status that is
\* 'error' after a failed createGraph until the answer of fetchHealth, if it
\* comes later, replaces it
HealthAnswerOverwritesError ==
    [][/\ OneFetchNoRetry
       /\ (CreateGraphFailed(app, tasks) /\ app.status = "error"
             /\ app'.status # "error") =>
             /\ tasks["fxHealth"].net = "ok"
             /\ tasks'["fxHealth"] = Idle
             /\ app'.status = tasks["fxHealth"].resp.status]_vars

\* createGraph failed with status 500 and the health answer came after it
HealthAnswerOverwroteError ==
    /\ CreateGraphFailed(app, tasks)
    /\ tasks["fxHealth"] = Idle
    /\ app.status = "ok"
    /\ server.graphs = EmptyObj

\* no request is issued and the component state, every error field and form
\* field included, is what it was
SilentNoOp == app' = app /\ tasks' = tasks /\ server' = server /\ disk' = disk

(* C8: handleAddClaim with blank text, handleAddRelation with an empty src   *)
(* or dst, handleAddDocument with an empty name or url, handleAddCard with   *)
(* an empty excerpt, handleAttachEvidence with no card chosen and            *)
(* handleMineText/handleMineUrl with blank text/url issue no request, set no *)
(* error field and leave graph, cards, docs and form fields unchanged        *)
C8_EmptyInputsAreNoOps ==
    [][/\ \A text \in {"", " "} : handleAddClaim(text) => SilentNoOp
       /\ (app.claimText \in {"", " "} /\ handleAddClaim(NoOverride)) => SilentNoOp
       /\ \A src, dst \in UnitIds(app.graph) \cup {""} :
             ((src = "" \/ dst = "") /\ handleAddRelation(src, dst)) => SilentNoOp
       /\ ((app.docName = "" \/ app.docUrl = "") /\ handleAddDocument) => SilentNoOp
       /\ (app.cardExcerpt = "" /\ handleAddCard) => SilentNoOp
       /\ (app.attachCardId = "" /\ handleAttachEvidence) => SilentNoOp
       /\ (app.miningText \in {"", " "} /\ handleMineText) => SilentNoOp
       /\ (app.miningUrl \in {"", " "} /\ handleMineUrl) => SilentNoOp]_vars

\* Add Document has returned early with a name typed in and no url
C8_Witness ==
    /\ noop = "handleAddDocument"
    /\ app.docName = "A"
    /\ app.docUrl = ""
    /\ app.graphId # ""

----------------------------------------------------------------------------
(* The inspector on a graph whose relations carry stored validations *)

\* c1 carries an LLM score and a type, c2 neither; e0 carries a validation, e1
\* one whose score is a text, e2 none
ValidatedGraph ==
    [units |->
        [k \in {"c1", "c2"} |->
            IF k = "c1"
            THEN [id |-> "c1", text |-> "A", type |-> "fact",
                  metadata |-> [llm_confidence |-> 600]]
            ELSE [id |-> "c2", text |-> "B"]],
     relations |->
        <<[src |-> "c1", dst |-> "c2", kind |-> "support",
           metadata |-> [llm_validation |->
               JObject([evaluation |-> JString("weak"), score |-> JNumber(200)])]],
          [src |-> "c2", dst |-> "c1", kind |-> "attack",
           metadata |-> [llm_validation |->
               JObject([evaluation |-> JString("weak"), score |-> JString("0.2")])]],
          [src |-> "c1", dst |-> "c2", kind |-> "attack"]>>]

\* the state after validated.json, a file holding that graph alone, was imported
\* into the fresh graph and its PUT succeeded
ValidatedApp ==
    ImportDone(Render([ReadyApp EXCEPT !.graphRef = ValidatedGraph,
                                       !.graph = ValidatedGraph]),
               JUndefined, "validated.json")

ValidatedServer == [ReadyServer EXCEPT !.graphs["g1"] = ValidatedGraph]

InitInspect ==
    /\ app = ValidatedApp
    /\ tasks = [t \in EffectSlots \cup SerialSlots |-> Idle]
    /\ server = ValidatedServer
    /\ noop = "off"
    /\ clicks = 0
    /\ disk = Null

\* a session in the inspector: selecting, typing into the claim form, and the
\* four LLM buttons
NextInspect ==
    \/ \E sel \in Selections(app.graph) : Select(sel)
    \/ \E value \in Typed("claimText") : setField("claimText", value)
    \/ ValidateEdgeOnClick
    \/ GenerateAssumptionsOnClick
    \/ ClassifyClaimOnClick
    \/ handleScoreClaim
    \/ \E t \in Slots : ServeValidateEdge(t)
    \/ \E t \in Slots : ServeGenerateEdgeAssumptions(t)
    \/ \E t \in Slots : ServeClassifyClaimType(t)
    \/ \E t \in Slots : ServeScoreClaimConfidence(t)
    \/ \E t \in Slots : ServeGetGraph(t)
    \/ \E t \in Slots : ServeRunCredibility(t)
    \/ \E t \in Slots : ServeUpdateGraph(t)
    \/ \E t \in Slots : ServeError(t)
    \/ \E t \in HandlerSlots : ValidateEdgeSettled(t)
    \/ \E t \in HandlerSlots : ValidateEdgeRefreshed(t)
    \/ \E t \in HandlerSlots : GenerateAssumptionsSettled(t)
    \/ \E t \in HandlerSlots : ClassifyClaimSettled(t)
    \/ \E t \in HandlerSlots : ScoreClaimSettled(t)
    \/ \E t \in HandlerSlots : ScoreClaimRefreshed(t)
    \/ \E t \in HandlerSlots : RunCredibilitySettled(t)
    \/ \E t \in HandlerSlots : ApplyScoresSettled(t)

SpecInspect == InitInspect /\ [][NextInspect]_vars

\* the selection changes in the step and is not null afterwards
SwitchesTo(type) ==
    /\ app'.selection # app.selection
    /\ app'.selection # Null
    /\ app'.selection.type = type

\* the relation an edge selection names in graph g
SelectedRelation(g, sel) == g.relations[EdgeIndex(sel.id) + 1]

(* C11: the selection is none, a node or an edge. When it switches to an    *)
(* edge, edgeAssumptions and both edge error fields are cleared and         *)
(* edgeValidation is what that relation's stored llm_validation holds, null *)
(* when it is absent or malformed; when it switches to a node, llmResult,   *)
(* claimTypeResult, claimText, claimType and manualClaimScore are what that *)
(* unit's data gives; nothing of the entity selected before stays in them   *)
C11_SelectionResetsDependentState ==
    [][/\ app'.selection = Null \/ app'.selection.type \in {"node", "edge"}
       /\ SwitchesTo("edge") =>
             LET rel == SelectedRelation(app'.graph, app'.selection)
                 v == IF "llm_validation" \in DOMAIN MetadataOf(rel)
                      THEN rel.metadata.llm_validation ELSE JUndefined
             IN /\ app'.edgeAssumptions = Null
                /\ app'.edgeAssumptionsError = ""
                /\ app'.edgeValidationError = ""
                /\ IF v.t = "object" /\ Field(v, "evaluation").t = "string"
                      /\ Field(v, "score").t = "number"
                   THEN /\ app'.edgeValidation # Null
                        /\ app'.edgeValidation.evaluation = v.fields.evaluation.s
                        /\ app'.edgeValidation.score = v.fields.score.n
                   ELSE app'.edgeValidation = Null
       /\ SwitchesTo("node") =>
             LET unit == app'.graph.units[app'.selection.id]
                 metadata == MetadataOf(unit)
             IN /\ app'.claimText = unit.text
                /\ app'.claimType = (IF "type" \in DOMAIN unit THEN unit.type ELSE "fact")
                /\ IF "type" \in DOMAIN unit
                   THEN app'.claimTypeResult # Null
                        /\ app'.claimTypeResult.claim_type = unit.type
                   ELSE app'.claimTypeResult = Null
                /\ IF "claim_credibility" \in DOMAIN metadata
                   THEN /\ app'.llmResult # Null
                        /\ app'.llmResult.score = metadata.claim_credibility
                        /\ app'.manualClaimScore = ToFixed2(metadata.claim_credibility)
                   ELSE /\ app'.manualClaimScore = ""
                        /\ IF "llm_confidence" \in DOMAIN metadata
                           THEN /\ app'.llmResult # Null
                                /\ app'.llmResult.score = metadata.llm_confidence
                           ELSE app'.llmResult = Null]_vars

\* assumptions were generated for e0, and then the edge with the malformed
\* validation was selected
C11_Witness ==
    /\ app.selection = [type |-> "edge", id |-> "e1"]
    /\ app.consoleEntries[1] = "Assumptions: e0 generated"
    /\ app.edgeAssumptions = Null
    /\ app.edgeValidation = Null

----------------------------------------------------------------------------
(* Mutating calls and the refetch that follows them *)

\* a session with the six handlers that post a change and then refetch
NextRefetch ==
    \/ \E sel \in Selections(app.graph) : Select(sel)
    \/ \E field \in {"docName", "docUrl", "cardExcerpt"} :
          \E value \in Typed(field) : setField(field, value)
    \/ \E value \in app.cards \cup {""} : setAttachCardId(value)
    \/ handleAddDocument
    \/ handleAddCard
    \/ handleAttachEvidence
    \/ handleScoreClaim
    \/ ClassifyClaimOnClick
    \/ ValidateEdgeOnClick
    \/ \E t \in Slots : ServeAddSupportingDocument(t)
    \/ \E t \in Slots : ServeListSupportingDocuments(t)
    \/ \E t \in Slots : ServeAddEvidenceCard(t)
    \/ \E t \in Slots : ServeListEvidenceCards(t)
    \/ \E t \in Slots : ServeAttachEvidenceCard(t)
    \/ \E t \in Slots : ServeScoreClaimConfidence(t)
    \/ \E t \in Slots : ServeClassifyClaimType(t)
    \/ \E t \in Slots : ServeValidateEdge(t)
    \/ \E t \in Slots : ServeGetGraph(t)
    \/ \E t \in Slots : ServeRunCredibility(t)
    \/ \E t \in Slots : ServeUpdateGraph(t)
    \/ \E t \in Slots : ServeError(t)
    \/ \E t \in HandlerSlots : AddDocumentSettled(t)
    \/ \E t \in HandlerSlots : AddCardSettled(t)
    \/ \E t \in HandlerSlots : AttachEvidenceSettled(t)
    \/ \E t \in HandlerSlots : ScoreClaimSettled(t)
    \/ \E t \in HandlerSlots : ScoreClaimRefreshed(t)
    \/ \E t \in HandlerSlots : ClassifyClaimSettled(t)
    \/ \E t \in HandlerSlots : ValidateEdgeSettled(t)
    \/ \E t \in HandlerSlots : ValidateEdgeRefreshed(t)
    \/ \E t \in HandlerSlots : RunCredibilitySettled(t)
    \/ \E t \in HandlerSlots : ApplyScoresSettled(t)

InitRefetch ==
    /\ app = LoadedApp
    /\ tasks = [t \in EffectSlots \cup SerialSlots |-> Idle]
    /\ server = LoadedServer
    /\ noop = "off"
    /\ clicks = 0
    /\ disk = Null

SpecRefetch == InitRefetch /\ [][NextRefetch]_vars

MutatingCalls ==
    {"addSupportingDocument", "addEvidenceCard", "attachEvidenceCard",
     "scoreClaimConfidence", "classifyClaimType", "validateEdge"}

\* the refetch that belongs to a mutating call
RefetchOf(op) ==
    CASE op = "addSupportingDocument" -> "listSupportingDocuments"
      [] op = "addEvidenceCard" -> "listEvidenceCards"
      [] op \in {"attachEvidenceCard", "scoreClaimConfidence", "classifyClaimType",
                 "validateEdge"} -> "getGraph"
      [] OTHER -> "-"

Refetches == {"listSupportingDocuments", "listEvidenceCards", "getGraph"}

\* the handler in slot t goes on after an await in the step
Resumed(t) ==
    <<tasks'[t].kind, tasks'[t].pc, tasks'[t].net, tasks'[t].req>>
       # <<tasks[t].kind, tasks[t].pc, tasks[t].net, tasks[t].req>>

(* C12: a mutating call that succeeded is followed by its refetch           *)
(* (addSupportingDocument by listSupportingDocuments, addEvidenceCard by    *)
(* listEvidenceCards, attachEvidenceCard, scoreClaimConfidence,             *)
(* classifyClaimType and validateEdge by getGraph); the refetch is issued   *)
(* only after the mutating call succeeded and its result replaces docs,     *)
(* cards or graph; after a failed mutating call no refetch is issued        *)
C12_RefetchAfterMutation ==
    [][\A t \in HandlerSlots :
          LET task == tasks[t]
              next == tasks'[t]
          IN /\ (task.req.op \in MutatingCalls /\ task.net = "ok" /\ Resumed(t)) =>
                   /\ next.net = "sent"
                   /\ next.req.op = RefetchOf(task.req.op)
                   /\ next.req.id = task.req.id
             /\ (task.req.op \in MutatingCalls /\ task.net = "err" /\ Resumed(t)) =>
                   /\ next = Idle
                   /\ \A u \in Slots : tasks'[u].net = "sent" => tasks[u].net = "sent"
             /\ (next.net = "sent" /\ next.req.op \in Refetches /\ next.req # task.req) =>
                   /\ task.net = "ok"
                   /\ RefetchOf(task.req.op) = next.req.op
             /\ (task.req.op \in Refetches /\ task.net = "ok" /\ Resumed(t)) =>
                   CASE task.req.op = "listSupportingDocuments" ->
                            app'.docs = task.resp.items
                     [] task.req.op = "listEvidenceCards" -> app'.cards = task.resp.items
                     [] OTHER -> app'.graph = task.resp.payload]_vars

\* Add Document has run to its end: the document list of the server, which
\* holds the new document alone, has replaced the local one
C12_Witness ==
    /\ app.docs = {"doc_1"}
    /\ app.docName = ""
    /\ \A t \in HandlerSlots : tasks[t] = Idle

----------------------------------------------------------------------------
(* The Cytoscape canvas under taps and the Edge toggle *)

InitCytoscape ==
    /\ app = LoadedApp
    /\ tasks = [t \in EffectSlots \cup SerialSlots |-> Idle]
    /\ server = LoadedServer
    /\ noop = "off"
    /\ clicks = 0
    /\ disk = Null

NextCytoscape ==
    \/ \E nodeId \in DOMAIN SampleGraph.units : CyTapNode(nodeId)
    \/ \E index \in 0..Len(SampleGraph.relations) : CyTapEdge(EdgeId(index))
    \/ CyTapBackground
    \/ CyToggleEdgeMode
    \/ \E t \in Slots : ServeUpdateGraph(t)
    \/ \E t \in Slots : ServeError(t)
    \/ \E t \in HandlerSlots : EditSettled(t)

SpecCytoscape == InitCytoscape /\ [][NextCytoscape]_vars

\* the props the step's event called
CallsOf(fn) == SelectSeq(app'.canvas.calls, LAMBDA call : call.fn = fn)

NoNodeSelectNoAddEdge ==
    /\ CallsOf("onAddEdge") = <<>>
    /\ \A i \in DOMAIN CallsOf("onSelect") : CallsOf("onSelect")[i].a # "node"

\* C13: drawing an edge on the Cytoscape canvas is a two-step mode that
\* leaves the selection alone. In edge mode the first tap on a node records
\* it as edgeSource and calls neither onSelect with a node nor onAddEdge; a
\* tap on a different node then calls onAddEdge(edgeSource, tapped) exactly
\* once and resets edgeSource to null; a tap on the source node itself
\* changes nothing; the Edge toggle always resets edgeSource; with edge mode
\* off a node tap calls onSelect with that node and never onAddEdge.
C13_EdgeModeTwoStep ==
    [][/\ \A nodeId \in DOMAIN SampleGraph.units :
             CyTapNode(nodeId) =>
                LET c == app.canvas
                    after == app'.canvas
                IN /\ (c.edgeMode /\ c.edgeSource = Null) =>
                         /\ after.edgeSource = [id |-> nodeId]
                         /\ NoNodeSelectNoAddEdge
                         /\ app'.graph = app.graph
                   /\ (c.edgeMode /\ c.edgeSource \notin {Null, [id |-> nodeId]}) =>
                         /\ CallsOf("onAddEdge") = <<OnAddEdgeCall(c.edgeSource.id, nodeId)>>
                         /\ after.edgeSource = Null
                   /\ (c.edgeMode /\ c.edgeSource = [id |-> nodeId]) =>
                         /\ NoNodeSelectNoAddEdge
                         /\ app' = [app EXCEPT !.canvas.calls = after.calls]
                         /\ UNCHANGED <<tasks, server>>
                   /\ c.edgeMode =>
                         /\ after.edgeMode
                         /\ app'.selection = app.selection
                   /\ ~c.edgeMode =>
                         /\ OnSelectCall([type |-> "node", id |-> nodeId])
                               \in {after.calls[i] : i \in DOMAIN after.calls}
                         /\ CallsOf("onAddEdge") = <<>>
                         /\ after.edgeSource = c.edgeSource
                         /\ ~after.edgeMode
       /\ CyToggleEdgeMode =>
             /\ app'.canvas.edgeSource = Null
             /\ app'.canvas.edgeMode = ~app.canvas.edgeMode
             /\ app'.selection = app.selection
             /\ app'.graph = app.graph]_vars

\* a second tap in edge mode has added the relation c1 -> c2
C13_Witness ==
    /\ app.canvas.edgeMode
    /\ app.canvas.edgeSource = Null
    /\ app.canvas.calls = <<OnAddEdgeCall("c1", "c2"), OnSelectCall(Null)>>
    /\ Len(app.graph.relations) = Len(SampleGraph.relations) + 1

----------------------------------------------------------------------------
(* The React Flow canvas under edits of the graph *)

\* the canvas after its first element effect
FlowApp == Render([LoadedApp EXCEPT !.canvas.kind = "reactflow"])

InitFlow ==
    /\ app = FlowApp
    /\ tasks = [t \in EffectSlots \cup SerialSlots |-> Idle]
    /\ server = LoadedServer
    /\ noop = "off"
    /\ clicks = 0
    /\ disk = Null

NextFlow ==
    \/ \E sel \in Selections(app.graph) : Select(sel)
    \/ \E text \in {"New claim"} : handleAddClaim(text)
    \/ handleDeleteClaim
    \/ handleDeleteEdge
    \/ \E nodeId \in {"c1"} : \E position \in DragPositions :
          FlowDragNode(nodeId, position)
    \/ layoutLeftToRight
    \/ \E group \in FocusGroups : setDiagnosticFocus(group)
    \/ \E t \in Slots : ServeUpdateGraph(t)
    \/ \E t \in Slots : ServeError(t)
    \/ \E t \in HandlerSlots : EditSettled(t)
    \/ \E t \in HandlerSlots : DeleteSettled(t)

SpecFlow == InitFlow /\ [][NextFlow]_vars

NodeIdsOf(nodes) == {nodes[i].id : i \in DOMAIN nodes}

PositionOf(nodes, id) == (CHOOSE i \in DOMAIN nodes : nodes[i].id = id)

\* the node and edge elements of an element list
NodeElements(elements) == SelectSeq(elements, LAMBDA e : ~IsEdgeElement(e))

EdgeElements(elements) == SelectSeq(elements, IsEdgeElement)

\* C14: in the React Flow canvas, whenever the element list or the highlight
\* set changes, the nodes become those of the new list in its order: a node
\* whose id the canvas held before keeps its position (dragged or laid out),
\* a node with a new id gets the grid position ((k mod 4)*240,
\* floor(k/4)*160) for its ordinal k among the nodes of the new list, and
\* nodes and edges absent from the new list are dropped.
C14_SyncKeepsPositions ==
    [][(/\ app.canvas.kind = "reactflow"
        /\ \/ Elements(app'.graph) # Elements(app.graph)
           \/ HighlightNodes(app') # HighlightNodes(app)) =>
          LET before == app.canvas.nodes
              after == app'.canvas.nodes
              listed == NodeElements(Elements(app'.graph))
              links == EdgeElements(Elements(app'.graph))
          IN /\ Len(after) = Len(listed)
             /\ \A i \in DOMAIN after :
                   /\ after[i].id = listed[i].data.id
                   /\ after[i].id \in NodeIdsOf(before) =>
                         after[i].position =
                            before[PositionOf(before, after[i].id)].position
                   /\ after[i].id \notin NodeIdsOf(before) =>
                         after[i].position =
                            [x |-> ((i - 1) % 4) * 240, y |-> ((i - 1) \div 4) * 160]
             /\ Len(app'.canvas.edges) = Len(links)
             /\ \A i \in DOMAIN links :
                   app'.canvas.edges[i].id = links[i].data.id]_vars

\* two claims were added after c1 was dragged: c1 kept the dragged position
\* and the fifth node went to the second row of the grid
C14_Witness ==
    /\ app.canvas.kind = "reactflow"
    /\ Len(app.canvas.nodes) = 5
    /\ app.canvas.nodes[1].id = "c1"
    /\ app.canvas.nodes[1].position \in DragPositions
    /\ app.canvas.nodes[4].position = [x |-> 720, y |-> 0]
    /\ app.canvas.nodes[5].position = [x |-> 0, y |-> 160]

----------------------------------------------------------------------------
(* Building a graph from the empty one and running diagnostics *)

NextDiagnostics ==
    \/ \E text \in {"A", "B"} : handleAddClaim(text)
    \/ \E src, dst \in UnitIds(app.graph) : handleAddRelation(src, dst)
    \/ handleRunDiagnostics
    \/ \E t \in Slots : ServeUpdateGraph(t)
    \/ \E t \in Slots : ServeRunDiagnostics(t)
    \/ \E t \in Slots : ServeError(t)
    \/ \E t \in HandlerSlots : EditSettled(t)
    \/ \E t \in HandlerSlots : DiagnosticsSettled(t)

SpecDiagnostics == InitReady /\ [][NextDiagnostics]_vars

\* the graph holds exactly the claims A (first) and B (second), of type fact
ClaimsAB(g) ==
    /\ DOMAIN g.units = {ClaimId(1), ClaimId(2)}
    /\ g.units[ClaimId(1)] = [id |-> ClaimId(1), text |-> "A", type |-> "fact"]
    /\ g.units[ClaimId(2)] = [id |-> ClaimId(2), text |-> "B", type |-> "fact"]

\* ... and one relation, from the first claim to the second, of kind support
ClaimsABRelated(g) ==
    /\ ClaimsAB(g)
    /\ Len(g.relations) = 1
    /\ g.relations[1].src = ClaimId(1)
    /\ g.relations[1].dst = ClaimId(2)
    /\ g.relations[1].kind = "support"

\* the body of the PUT request the step issued has these units and relations
PutIssuedWith(P(_)) ==
    \E t \in HandlerSlots :
        /\ tasks[t] = Idle
        /\ tasks'[t].req.op = "updateGraph"
        /\ tasks'[t].net = "sent"
        /\ P(tasks'[t].req.body)

\* C15: from the freshly created empty graph, adding the claims A and B
\* (type fact) and then a relation from the first to the second with the
\* default kind sends a payload with exactly 2 units and exactly 1 relation,
\* of kind support; diagnostics run afterwards store the answer of the
\* server, which for a server that counts the payload it stores is
\* node_count 2, relation_count 1, support_edge_count 1, attack_edge_count 0.
C15_TwoClaimsOneSupport ==
    [][/\ (app.graph = EmptyGraph /\ handleAddClaim("A")) =>
             /\ DOMAIN app'.graph.units = {ClaimId(1)}
             /\ app'.graph.units[ClaimId(1)].text = "A"
             /\ app'.graph.units[ClaimId(1)].type = "fact"
             /\ app'.graph.relations = <<>>
       /\ (/\ DOMAIN app.graph.units = {ClaimId(1)}
           /\ app.graph.units[ClaimId(1)].text = "A"
           /\ app.graph.units[ClaimId(1)].type = "fact"
           /\ app.graph.relations = <<>>
           /\ handleAddClaim("B")) =>
             /\ ClaimsAB(app'.graph)
             /\ app'.graph.relations = <<>>
       /\ (/\ ClaimsAB(app.graph)
           /\ app.graph.relations = <<>>
           /\ handleAddRelation(ClaimId(1), ClaimId(2))) =>
             /\ ClaimsABRelated(app'.graph)
             /\ PutIssuedWith(ClaimsABRelated)
       /\ \A t \in HandlerSlots :
             (/\ ClaimsABRelated(app.graph)
              /\ server.graphs[app.graphId] = app.graph
              /\ tasks[t].net = "ok"
              /\ DiagnosticsSettled(t)) =>
                /\ app'.diagnostics = tasks[t].resp
                /\ app'.diagnostics =
                      [node_count |-> 2, relation_count |-> 1,
                       support_edge_count |-> 1, attack_edge_count |-> 0]]_vars

\* the diagnostics of the graph A -> B are stored
C15_Witness ==
    /\ ClaimsABRelated(app.graph)
    /\ server.graphs[app.graphId] = app.graph
    /\ app.diagnostics # Null
    /\ app.diagnostics.node_count = 2
    /\ app.diagnostics.support_edge_count = 1
    /\ ~app.isRunningDiagnostics

----------------------------------------------------------------------------
(* Responses that arrive after the selection has changed *)

\* the request, its state and the position of every suspended handler
InFlight(ts) == [t \in DOMAIN ts |-> <<ts[t].kind, ts[t].pc, ts[t].net, ts[t].req>>]

\* C18: in-flight requests are never cancelled and their responses are
\* applied whatever the selection has become: a change of selection leaves
\* every pending request as it is, and the answer to generateEdgeAssumptions,
\* validateEdge or scoreClaimConfidence issued for X is stored in
\* edgeAssumptions, edgeValidation or llmResult while the selection stays
\* what it is, Y.
C18_StaleResponsesApplied ==
    [][/\ app'.selection # app.selection => InFlight(tasks') = InFlight(tasks)
       /\ \A t \in HandlerSlots :
             /\ (tasks[t].net = "ok" /\ GenerateAssumptionsSettled(t)) =>
                   /\ app'.edgeAssumptions = tasks[t].resp
                   /\ app'.edgeAssumptions.edge_id = tasks[t].sel.id
                   /\ app'.selection = app.selection
             /\ (tasks[t].net = "ok" /\ ValidateEdgeSettled(t)) =>
                   /\ app'.edgeValidation = tasks[t].resp
                   /\ app'.selection = app.selection
             /\ (tasks[t].net = "ok" /\ ScoreClaimSettled(t)) =>
                   /\ app'.llmResult = tasks[t].resp
                   /\ app'.selection = app.selection]_vars

\* the assumptions of edge e0 are shown while edge e1 is selected
C18_Witness ==
    /\ app.selection = [type |-> "edge", id |-> "e1"]
    /\ app.edgeAssumptions # Null
    /\ app.edgeAssumptions.edge_id = "e0"
    /\ \A t \in HandlerSlots : tasks[t] = Idle

----------------------------------------------------------------------------
(* Two handlers at a time: a second action is started while the first waits *)
(* for its answer. Claim c2 is selected and an evidence card is chosen.     *)

OverlapApp ==
    Render([LoadedApp EXCEPT !.selection = [type |-> "node", id |-> "c2"],
                             !.attachCardId = "card1",
                             !.reasoning = Null])

InitOverlap ==
    /\ app = OverlapApp
    /\ tasks = [t \in EffectSlots \cup OverlapSlots |-> Idle]
    /\ server = LoadedServer
    /\ noop = "off"
    /\ clicks = 0
    /\ disk = Null

\* every request is answered successfully
NextConverge ==
    \/ \E text \in {"New claim"} : handleAddClaim(text)
    \/ handleAttachEvidence
    \/ \E semantics \in Semantics : handleRunReasoning(semantics)
    \/ \E t \in Slots : ServeUpdateGraph(t)
    \/ \E t \in Slots : ServeAttachEvidenceCard(t)
    \/ \E t \in Slots : ServeGetGraph(t)
    \/ \E t \in Slots : ServeRunReasoning(t)
    \/ \E t \in HandlerSlots : EditSettled(t)
    \/ \E t \in HandlerSlots : AttachEvidenceSettled(t)
    \/ \E t \in HandlerSlots : ReasoningSettled(t)

SpecConverge == InitOverlap /\ [][NextConverge]_vars

NextOverlap ==
    \/ NextConverge
    \/ \E t \in Slots : ServeError(t)

SpecOverlap == InitOverlap /\ [][NextOverlap]_vars

\* C16: action handlers are atomic with respect to one another: while a
\* handler is suspended at an awaited call, no other action commits a state
\* update, so the updates of two handlers are never interleaved.
C16_HandlersAtomic ==
    [][\A t \in HandlerSlots :
          (tasks[t] # Idle /\ app' # app) => InFlight(tasks')[t] # InFlight(tasks)[t]]_vars

\* a PUT of the full payload p is issued in the step
PutOf(p) ==
    \E t \in HandlerSlots : PutIssued(t) /\ tasks'[t].req.body = p

\* a suspended handler or effect resumes in the step on an answer of the
\* server that carries the payload p
PayloadResumed(p) ==
    \E t \in Slots :
        /\ tasks[t].net = "ok"
        /\ InFlight(tasks')[t] # InFlight(tasks)[t]
        /\ "payload" \in DOMAIN tasks[t].resp
        /\ tasks[t].resp.payload = p

\* C17: the local graph is changed only by updateGraphState: every step that
\* changes the graph is accompanied by a PUT of the full new payload.
C17_GraphChangesOnlyWithPut ==
    [][app'.graph # app.graph => PutOf(app'.graph)]_vars

\* C17, amended: every step that changes the graph either is an
\* updateGraphState, accompanied by a PUT of the full new payload, or assigns
\* the payload that a response of the server carried.
C17_GraphChangesWithPutOrFromServer ==
    [][app'.graph # app.graph =>
          \/ PutOf(app'.graph)
          \/ PayloadResumed(app'.graph)]_vars

\* the graph was refetched after an attachment and then edited
C17_Witness ==
    /\ "evidence_ids" \in DOMAIN app.graph.units["c2"]
    /\ Cardinality(DOMAIN app.graph.units) = Cardinality(DOMAIN SampleGraph.units) + 1
    /\ \E t \in HandlerSlots : tasks[t].req.op = "updateGraph" /\ tasks[t].net = "sent"

\* the fields in which handlers record a failure
ErrorsOf(a) ==
    <<a.status, a.reasoningError, a.llmError, a.datasetError,
      a.edgeValidationError, a.edgeAssumptionsError>>

\* C19: when two actions whose responses overwrite the same slice are in
\* flight together, every response that arrives replaces the slice by the
\* value it carries, so the slice finally holds the value of the response
\* that arrived last, whatever the order of the requests; no error is
\* recorded.
C19_LastResponseWins ==
    [][\A t \in HandlerSlots :
          /\ (/\ tasks[t].kind = "handleAttachEvidence"
              /\ tasks[t].pc = "getGraph"
              /\ tasks[t].net = "ok"
              /\ AttachEvidenceSettled(t)) =>
                /\ app'.graph = tasks[t].resp.payload
                /\ ErrorsOf(app') = ErrorsOf(app)
          /\ (tasks[t].net = "ok" /\ ReasoningSettled(t)) =>
                /\ app'.reasoning = tasks[t].resp
                /\ ErrorsOf(app') = ErrorsOf(app)]_vars

\* two attachments were refetched and the answer to the first refetch arrived
\* last: the local graph holds one card where the server holds two
C19_Witness ==
    /\ \A t \in HandlerSlots : tasks[t] = Idle
    /\ "evidence_ids" \in DOMAIN app.graph.units["c2"]
    /\ Len(app.graph.units["c2"].evidence_ids) = 1
    /\ "evidence_ids" \in DOMAIN server.graphs[app.graphId].units["c2"]
    /\ Len(server.graphs[app.graphId].units["c2"].evidence_ids) = 2

\* C20: once every request in flight has completed successfully and no
\* action is pending, the local graph equals the graph the server stores
\* under graphId.
C20_LocalEqualsServer ==
    (\A t \in Slots : tasks[t] = Idle) => app.graph = server.graphs[app.graphId]

----------------------------------------------------------------------------
(* Adding a claim after deletions *)

\* C21: handleAddClaim with non-blank text always adds a new unit: in every
\* reachable graph, graphs reached after deletions included, the number of
\* units grows by exactly one and no existing unit is replaced.
C21_AddClaimAddsUnit ==
    [][\A text \in {"New claim"} :
          (app.graphId # "" /\ handleAddClaim(text)) =>
             /\ Cardinality(DOMAIN app'.graph.units)
                   = Cardinality(DOMAIN app.graph.units) + 1
             /\ \A k \in DOMAIN app.graph.units :
                   /\ k \in DOMAIN app'.graph.units
                   /\ app'.graph.units[k] = app.graph.units[k]]_vars

----------------------------------------------------------------------------
(* Edits of a loaded graph through the inspector *)

RelationKindOptions == {"support", "attack"}

NextEdit ==
    \/ \E sel \in Selections(app.graph) : Select(sel)
    \/ \E kind \in RelationKindOptions :
          EdgeSelected /\ setField("relationKind", kind)
    \/ UpdateClaimOnClick
    \/ UpdateEdgeOnClick
    \/ handleDeleteClaim
    \/ handleDeleteEdge
    \/ \E src \in {"c3"} \cap UnitIds(app.graph) :
          \E dst \in {"c1", "c2"} \cap UnitIds(app.graph) : handleAddRelation(src, dst)
    \/ \E t \in Slots : ServeUpdateGraph(t)
    \/ \E t \in Slots : ServeError(t)
    \/ \E t \in HandlerSlots : EditSettled(t)
    \/ \E t \in HandlerSlots : DeleteSettled(t)

SpecEdit == InitRefetch /\ [][NextEdit]_vars

\* the value of a field of a unit, if it has the field
FieldOf(unit, field) == IF field \in DOMAIN unit THEN <<unit[field]>> ELSE <<>>

\* C22: Update Claim changes only the text and type of the selected unit:
\* its evidence_ids and metadata, every other unit and the relations are the
\* same after the action as before it.
C22_UpdateClaimKeepsTheRest ==
    [][(/\ app.graphRef # Null
        /\ app.graphId # ""
        /\ NodeSelected
        /\ app.selection.id \in DOMAIN app.graph.units
        /\ UpdateClaimOnClick) =>
          LET id == app.selection.id
          IN /\ DOMAIN app'.graph.units = DOMAIN app.graph.units
             /\ \A k \in DOMAIN app.graph.units \ {id} :
                   app'.graph.units[k] = app.graph.units[k]
             /\ app'.graph.relations = app.graph.relations
             /\ \A field \in {"evidence_ids", "metadata"} :
                   FieldOf(app'.graph.units[id], field)
                      = FieldOf(app.graph.units[id], field)]_vars

\* C23: in every reachable state a node selection's id is a key of the units
\* of the local graph and an edge selection's id is e<i> with i less than
\* the number of relations.
C23_SelectionValid ==
    (app.selection # Null /\ app.graph # Null) =>
        IF app.selection.type = "node"
        THEN app.selection.id \in DOMAIN app.graph.units
        ELSE /\ EdgeIndex(app.selection.id) >= 0
             /\ EdgeIndex(app.selection.id) < Len(app.graph.relations)

----------------------------------------------------------------------------
(* Mining a new graph while a loaded graph is shown *)

NextMining ==
    \/ \E sel \in NodeSelections(app.graph) : Select(sel)
    \/ \E field \in {"miningText", "miningUrl"} :
          \E value \in Typed(field) : setField(field, value)
    \/ handleMineText
    \/ handleMineUrl
    \/ \E t \in Slots : ServeParseMining(t)
    \/ \E t \in Slots : ServeGetGraph(t)
    \/ \E t \in Slots : ServeListEvidenceCards(t)
    \/ \E t \in Slots : ServeListSupportingDocuments(t)
    \/ \E t \in Slots : ServeError(t)
    \/ \E t \in HandlerSlots : MiningSettled(t)
    \/ EffectGetGraphSettled
    \/ EffectListCardsSettled
    \/ EffectListDocsSettled

SpecMining == InitRefetch /\ [][NextMining]_vars

\* the identity of the graph, the selection and the four analysis results
MiningSlice(a) ==
    <<a.graphId, a.graph, a.selection,
      a.diagnostics, a.credibility, a.reasoning, a.reasonerResults>>

\* C29: a successful mining action (text or URL) replaces graphId and graph
\* by those of the response and leaves the selection none and diagnostics,
\* credibility, reasoning and reasonerResults null; a failed one leaves
\* graphId, graph, selection and the four results unchanged and sets
\* miningError to the failure message.
C29_MiningOutcome ==
    [][\A t \in HandlerSlots :
          MiningSettled(t) =>
             IF tasks[t].net = "ok"
             THEN MiningSlice(app') =
                     <<tasks[t].resp.id, tasks[t].resp.payload, Null,
                       Null, Null, Null, Null>>
             ELSE /\ MiningSlice(app') = MiningSlice(app)
                  /\ app'.miningError = RequestError(tasks[t].resp.status)]_vars

\* the mined graph replaced the loaded one and its results
C29_Witness ==
    /\ app.graphId = "g2"
    /\ app.graph = MinedGraph
    /\ app.selection = Null
    /\ app.diagnostics = Null
    /\ ~app.isMining
    /\ app.miningError = ""
    /\ app.consoleEntries[1] = "Mining URL: graph g2 created"

\* the ids the projector gives the relations of g, in order
EdgeIdsOf(g) ==
    LET links == EdgeElements(Elements(g))
    IN [i \in DOMAIN links |-> links[i].data.id]

\* C25: edge ids are exactly e<index>: the projector gives relations[i] the
\* id e<i>; handleDeleteEdge with selection e<i>, i in range, removes exactly
\* relations[i], so that every later relation's id is one lower; Update Edge
\* with selection e<i> changes only the kind of relations[i]; adding a
\* relation appends it as e<n> and changes no existing id.
C25_EdgeIdsPositional ==
    [][LET before == app.graph.relations
           after == app'.graph.relations
           n == Len(before)
           i == EdgeIndex(app.selection.id)
       IN /\ app.graph # Null =>
                EdgeIdsOf(app.graph) = [j \in 1..n |-> EdgeId(j - 1)]
          /\ (/\ app.graphRef # Null /\ app.graphId # "" /\ EdgeSelected
              /\ i >= 0 /\ i < n
              /\ handleDeleteEdge) =>
                /\ Len(after) = n - 1
                /\ \A j \in 0..(n - 2) :
                      after[j + 1] = IF j < i THEN before[j + 1] ELSE before[j + 2]
          /\ (/\ app.graphRef # Null /\ app.graphId # "" /\ EdgeSelected
              /\ i >= 0 /\ i < n
              /\ UpdateEdgeOnClick) =>
                /\ Len(after) = n
                /\ \A j \in 0..(n - 1) :
                      after[j + 1] = IF j = i
                                     THEN Ext(before[j + 1], "kind", app.relationKind)
                                     ELSE before[j + 1]
                /\ app'.graph.units = app.graph.units
          /\ \A src, dst \in UnitIds(app.graph) :
                (app.graphId # "" /\ handleAddRelation(src, dst)) =>
                   /\ Len(after) = n + 1
                   /\ SubSeq(after, 1, n) = before
                   /\ after[n + 1] = [src |-> src, dst |-> dst,
                                      kind |-> app.relationKind]
                   /\ EdgeIdsOf(app'.graph)[n + 1] = EdgeId(n)]_vars

\* edge e1 was deleted: the relations that followed it moved down by one
C25_Witness ==
    /\ app.graph # Null
    /\ app.graph.relations =
          <<SampleGraph.relations[1], SampleGraph.relations[3], SampleGraph.relations[4]>>
    /\ app.selection = [type |-> "edge", id |-> "e1"]
    /\ \E t \in HandlerSlots :
          tasks[t].kind = "handleDeleteEdge" /\ tasks[t].req.body = app.graph

----------------------------------------------------------------------------
(* Relations drawn on the canvas: onConnect of the React Flow canvas, and   *)
(* the second tap of the Cytoscape canvas after the graph was replaced      *)

\* onConnect: both ends are nodes of the canvas, which may be one node
FlowConnect(source, target) ==
    /\ app.canvas.kind = "reactflow"
    /\ {source, target} \subseteq NodeIdsOf(app.canvas.nodes)
    /\ handleAddRelation(source, target)

\* edge mode is on, c3 is the recorded source and a text to mine is typed
StaleSourceApp ==
    [LoadedApp EXCEPT !.canvas.edgeMode = TRUE,
                      !.canvas.edgeSource = [id |-> "c3"],
                      !.miningText = "A"]

InitEndpoints ==
    /\ app \in {StaleSourceApp, FlowApp}
    /\ tasks = [t \in EffectSlots \cup SerialSlots |-> Idle]
    /\ server = LoadedServer
    /\ noop = ""
    /\ clicks = 0
    /\ disk = Null

NextEndpoints ==
    \/ \E source, target \in {"c1", "c2"} : FlowConnect(source, target)
    \/ \E nodeId \in {"c1", "c2"} :
          app.canvas.kind = "cytoscape" /\ CyTapNode(nodeId)
    \/ app.canvas.kind = "cytoscape" /\ handleMineText
    \/ \E t \in Slots : ServeParseMining(t)
    \/ \E t \in Slots : ServeUpdateGraph(t)
    \/ \E t \in Slots : ServeGetGraph(t)
    \/ \E t \in Slots : ServeListEvidenceCards(t)
    \/ \E t \in Slots : ServeListSupportingDocuments(t)
    \/ \E t \in Slots : ServeError(t)
    \/ \E t \in HandlerSlots : EditSettled(t)
    \/ \E t \in HandlerSlots : MiningSettled(t)
    \/ EffectGetGraphSettled
    \/ EffectListCardsSettled
    \/ EffectListDocsSettled

SpecEndpoints == InitEndpoints /\ [][NextEndpoints]_vars

\* the step appends the relation src -> dst of the current kind to the graph
\* and sends the new graph as it is
RelationAppended(src, dst) ==
    /\ app'.graph = [app.graphRef EXCEPT !.relations =
                        Append(@, [src |-> src, dst |-> dst,
                                   kind |-> app.relationKind])]
    /\ PutOf(app'.graph)

\* the relations of g that name a unit g does not have
DanglingRelations(g) ==
    {i \in DOMAIN g.relations :
        {g.relations[i].src, g.relations[i].dst} \cap DOMAIN g.units
           # {g.relations[i].src, g.relations[i].dst}}

\* C24: relation endpoints are not checked when a relation is added:
\* handleAddRelation appends {src, dst, kind} for any non-empty src and dst,
\* ids that are not keys of units, equal src and dst and pairs already
\* related included, and sends the graph to the server unchanged.
C24_EndpointsUnchecked ==
    [][(app.graphRef # Null /\ app.graphId # "") =>
          /\ \A source, target \in {"c1", "c2"} :
                FlowConnect(source, target) => RelationAppended(source, target)
          /\ \A target \in {"c1", "c2"} :
                (/\ app.canvas.kind = "cytoscape"
                 /\ app.canvas.edgeMode
                 /\ app.canvas.edgeSource \notin {Null, [id |-> target]}
                 /\ CyTapNode(target)) =>
                   RelationAppended(app.canvas.edgeSource.id, target)]_vars

\* a relation from c3, which the mined graph does not have, is stored by the
\* server
C24_Witness ==
    /\ app.graphId \in DOMAIN server.graphs
    /\ server.graphs[app.graphId] = app.graph
    /\ DanglingRelations(app.graph) # {}
    /\ app.graph.relations[1].src = "c3"

\* a loop and a second relation between the same pair were added
C24_WitnessLoop ==
    /\ app.canvas.kind = "reactflow"
    /\ \E i \in DOMAIN app.graph.relations :
          app.graph.relations[i].src = app.graph.relations[i].dst
    /\ Len(app.graph.relations) > Len(SampleGraph.relations)

----------------------------------------------------------------------------
(* Score bands: the badge of a unit whose propagated score is known        *)

\* scores run from -ScoreSpan to ScoreSpan thousandths
ScoreSpan == 1010

ScoreInputs == (0 - ScoreSpan)..ScoreSpan

\* the sample graph after a propagation gave c1 the score
ScoredGraph(score) ==
    [SampleGraph EXCEPT !.units["c1"] =
        Ext(@, "metadata", Ext(MetadataOf(@), "claim_credibility_propagated", score))]

ScoredApp(score) ==
    Render([LoadedApp EXCEPT !.canvas.kind = "reactflow",
                             !.graphRef = ScoredGraph(score),
                             !.graph = ScoredGraph(score)])

InitClassify ==
    /\ \E score \in ScoreInputs :
          /\ app = ScoredApp(score)
          /\ server = [ReadyServer EXCEPT !.graphs["g1"] = ScoredGraph(score)]
    /\ tasks = [t \in EffectSlots \cup SerialSlots |-> Idle]
    /\ noop = "off"
    /\ clicks = 0
    /\ disk = Null

NextClassify ==
    \/ handleRunCredibility
    \/ \E t \in Slots : ServeRunCredibility(t)
    \/ \E t \in Slots : ServeUpdateGraph(t)
    \/ \E t \in Slots : ServeError(t)
    \/ \E t \in HandlerSlots : RunCredibilitySettled(t)
    \/ \E t \in HandlerSlots : ApplyScoresSettled(t)

SpecClassify == InitClassify /\ [][NextClassify]_vars

ScoreBands ==
    {"Very Low Confidence", "Low Confidence", "Neutral / Unknown",
     "High Confidence", "Very High Confidence"}

\* C30: getScoreClassification is total on [-1, 1]: every score from -1000 to
\* 1000 thousandths gets one of the five named bands, and the label "Unknown"
\* is given only to scores outside that range.
C30_ClassificationTotal ==
    \A i \in DOMAIN app.canvas.elements :
        LET data == app.canvas.elements[i].data
        IN (/\ ~IsEdgeElement(app.canvas.elements[i])
            /\ data.id \in DOMAIN app.graph.units
            /\ "claim_credibility_propagated" \in DOMAIN MetadataOf(app.graph.units[data.id])) =>
              LET score == MetadataOf(app.graph.units[data.id]).claim_credibility_propagated
              IN /\ (score >= -1000 /\ score <= 1000) => data.scoreBadge \in ScoreBands
                 /\ data.scoreBadge = "Unknown" => (score < -1000 \/ score > 1000)

----------------------------------------------------------------------------
(* Evidence cards without a supporting document *)

\* an excerpt is typed, no document is chosen, and two handlers can be
\* suspended at a time
InitCards ==
    /\ app = [LoadedApp EXCEPT !.cardExcerpt = "A"]
    /\ tasks = [t \in EffectSlots \cup OverlapSlots |-> Idle]
    /\ server = LoadedServer
    /\ noop = "off"
    /\ clicks = 0
    /\ disk = Null

NextCards ==
    \/ handleAddCard
    \/ \E t \in Slots : ServeAddSupportingDocument(t)
    \/ \E t \in Slots : ServeListSupportingDocuments(t)
    \/ \E t \in Slots : ServeAddEvidenceCard(t)
    \/ \E t \in Slots : ServeListEvidenceCards(t)
    \/ \E t \in Slots : ServeError(t)
    \/ \E t \in HandlerSlots : AddCardSettled(t)

SpecCards == InitCards /\ [][NextCards]_vars

\* slot t sends the request op in the step
Issued(t, op) ==
    /\ tasks'[t].req.op = op
    /\ tasks'[t].net = "sent"
    /\ tasks'[t] # tasks[t]

\* slot t has sent the POST of the "unassigned" document and it is unanswered
UnassignedInFlight(t) ==
    /\ tasks[t].net = "sent"
    /\ tasks[t].req.op = "addSupportingDocument"
    /\ tasks[t].req.body.id = "unassigned"

\* C28: when handleAddCard runs with no supporting document chosen, the card
\* is posted with supporting_doc_id "unassigned", the POST that creates the
\* "unassigned" document has completed before the card POST is issued, and
\* over any sequence of add-card actions, overlapping ones included, the
\* "unassigned" document is posted at most once per graph.
C28_UnassignedOnce ==
    [][\A t \in HandlerSlots :
          /\ (app.cardDocId = "" /\ tasks'[t].kind = "handleAddCard"
              /\ Issued(t, "addEvidenceCard")) =>
                /\ tasks'[t].req.body.supporting_doc_id = "unassigned"
                /\ tasks[t] # Idle => "unassigned" \in server.docs[tasks[t].gid]
          /\ (Issued(t, "addSupportingDocument")
              /\ tasks'[t].req.body.id = "unassigned") =>
                /\ "unassigned" \notin server.docs[tasks'[t].gid]
                /\ \A u \in HandlerSlots \ {t} : ~UnassignedInFlight(u)]_vars

----------------------------------------------------------------------------
(* Busy flags *)

\* c1 is selected and two handlers can be suspended at a time
InitBusy ==
    /\ app = Render([LoadedApp EXCEPT !.selection = [type |-> "node", id |-> "c1"]])
    /\ tasks = [t \in EffectSlots \cup OverlapSlots |-> Idle]
    /\ server = LoadedServer
    /\ noop = "off"
    /\ clicks = 0
    /\ disk = Null

\* Run Credibility and Score Claim are disabled while their own flag is set
NextBusy ==
    \/ ~app.isRunningCredibility /\ handleRunCredibility
    \/ ~app.isScoringClaim /\ handleScoreClaim
    \/ \E t \in Slots : ServeRunCredibility(t)
    \/ \E t \in Slots : ServeScoreClaimConfidence(t)
    \/ \E t \in Slots : ServeGetGraph(t)
    \/ \E t \in Slots : ServeUpdateGraph(t)
    \/ \E t \in Slots : ServeError(t)
    \/ \E t \in HandlerSlots : ScoreClaimSettled(t)
    \/ \E t \in HandlerSlots : ScoreClaimRefreshed(t)
    \/ \E t \in HandlerSlots : RunCredibilitySettled(t)
    \/ \E t \in HandlerSlots : ApplyScoresSettled(t)

SpecBusy == InitBusy /\ [][NextBusy]_vars

\* a handler of one of the kinds is suspended at a request
Running(kinds) == \E t \in HandlerSlots : tasks[t].kind \in kinds

\* a handler is suspended inside handleRunCredibility, whoever called it
RunningCredibility ==
    \E t \in HandlerSlots : tasks[t].pc \in {"runCredibility", "applyScores"}

\* C26: busy flags are faithful: each of isRunningCredibility,
\* isRunningDiagnostics, isScoringClaim, isClassifyingClaim, isValidatingEdge,
\* isGeneratingAssumptions and isMining is true exactly while at least one
\* request of its action is in flight, for every interleaving, credibility
\* runs started by other handlers and text and URL mining sharing isMining
\* included, on failure as well as on success.
C26_BusyFlagsFaithful ==
    /\ app.isRunningCredibility <=> RunningCredibility
    /\ app.isRunningDiagnostics <=> Running({"handleRunDiagnostics"})
    /\ app.isScoringClaim <=> Running({"handleScoreClaim"})
    /\ app.isClassifyingClaim <=> Running({"ClassifyClaim"})
    /\ app.isValidatingEdge <=> Running({"ValidateEdge"})
    /\ app.isGeneratingAssumptions <=> Running({"GenerateAssumptions"})
    /\ app.isMining <=> Running({"handleMineText", "handleMineUrl"})

----------------------------------------------------------------------------
(* What a credibility run does to the graph *)

\* unit after is unit before with metadata.claim_credibility_propagated set to
\* score and nothing else changed
OnlyPropagatedSet(before, after, score) ==
    /\ DOMAIN after = DOMAIN before \cup {"metadata"}
    /\ \A f \in DOMAIN before \ {"metadata"} : after[f] = before[f]
    /\ DOMAIN after.metadata =
          DOMAIN MetadataOf(before) \cup {"claim_credibility_propagated"}
    /\ \A f \in DOMAIN MetadataOf(before) \ {"claim_credibility_propagated"} :
          after.metadata[f] = MetadataOf(before)[f]
    /\ after.metadata.claim_credibility_propagated = score

\* C27: handleRunCredibility changes the graph only by setting
\* metadata.claim_credibility_propagated on units that already exist: scored
\* ids that are no units are skipped, the set of unit ids, each unit's other
\* fields and metadata keys and the relations stay as they are, and when
\* final_scores is empty or missing no PUT is issued and the graph is
\* untouched.
C27_CredibilityOnlySetsScores ==
    [][\A t \in HandlerSlots :
          (tasks[t].pc = "runCredibility" /\ tasks[t].net = "ok"
           /\ RunCredibilitySettled(t)) =>
             LET result == tasks[t].resp
                 scores == IF "final_scores" \in DOMAIN result
                           THEN result.final_scores ELSE EmptyObj
                 before == app.graph
                 after == app'.graph
             IN IF DOMAIN scores = {} \/ before = Null
                THEN after = before /\ ~PutIssued(t)
                ELSE /\ DOMAIN after.units = DOMAIN before.units
                     /\ after.relations = before.relations
                     /\ \A k \in DOMAIN before.units :
                           IF k \in DOMAIN scores
                           THEN OnlyPropagatedSet(before.units[k], after.units[k],
                                                  scores[k])
                           ELSE after.units[k] = before.units[k]
                     /\ PutOf(after)]_vars

\* the run scored c1 and zz: c1 holds the score, no unit zz was made, and the
\* server stored the graph
C27_Witness ==
    /\ app.credibility # Null
    /\ "final_scores" \in DOMAIN app.credibility
    /\ "zz" \in DOMAIN app.credibility.final_scores
    /\ app.graph # Null
    /\ "c1" \in DOMAIN app.graph.units
    /\ "zz" \notin DOMAIN app.graph.units
    /\ MetadataOf(app.graph.units["c1"]) # EmptyObj
    /\ "claim_credibility_propagated" \in DOMAIN MetadataOf(app.graph.units["c1"])
    /\ server.graphs[app.graphId] = app.graph
    /\ ~app.isRunningCredibility

====
